---- MODULE Spec2Model ----
\* Verification model of the BuildStream configuration core:
\*   - LoadElement.depends() and its memoized dependency cache
\*     (buildstream/_loader/loadelement.py)
\*   - _extract_depends_from_node() (buildstream/_loader/loadelement.py)
\*   - the YAML node model and composition engine (buildstream/_yaml.py)
EXTENDS Integers, Sequences, FiniteSets, TLC

VARIABLES
    deps,        \* LoadElement.deps of every element: a list of dependency names
    dep_cache,   \* LoadElement._dep_cache of every element
    computed,    \* per element: how often line 103 (self._dep_cache = {}) ran
    query,       \* the last depends() call: arguments and outcome
    tree,        \* the element node handed to _extract_depends_from_node()
    extraction,  \* the outcome of _extract_depends_from_node(tree)
    target_tree, \* the tree that the layers of configuration are composed into
    composed,    \* the last composite() call: its arguments and outcome
    helper_tree, \* the tree handed to a helper of the YAML layer
    helper_call, \* the last helper call: its arguments and outcome
    source_state, \* a Source: its ref, cached consistency and where refs are stored
    source_call  \* the last call of a method of the Source and its outcome

loadVars == <<deps, dep_cache, computed, query>>
extractVars == <<tree, extraction>>
composeVars == <<target_tree, composed>>
helperVars == <<helper_tree, helper_call>>
sourceVars == <<source_state, source_call>>

vars == <<deps, dep_cache, computed, query, tree, extraction, target_tree, composed,
          helper_tree, helper_call, source_state, source_call>>

(***************************************************************************)
(* Bounds                                                                  *)
(***************************************************************************)
\* longest list of dependencies of one element
MaxDeps == 2
\* longest list of entries of a dependency field
MaxEntries == 2
\* depth of the Python call stack at which the interpreter raises
\* RecursionError (sys.getrecursionlimit(), scaled down)
MaxRecursion == 5
\* the counter of cache computations saturates here
MaxComputed == 2
\* number of composite() calls made on one tree
MaxLayers == 2

SeqsUpTo(S, n) == UNION {[1..k -> S] : k \in 0..n}

\* a local name: the value v is computed once and handed to Body
Let(v, Body(_)) == Body(v)

(***************************************************************************)
(* The node model (buildstream/_yaml.py)                                   *)
(*                                                                         *)
(* A Python value is a record with a kind:                                 *)
(*   str   [kind, val]           a (ruamel) string                         *)
(*   bool  [kind, val]           a Python bool                             *)
(*   none  [kind]                None                                      *)
(*   list  [kind, items]         a list / CommentedSeq                     *)
(*   dict  [kind, entries, prov] a dict / CommentedMap: its members in     *)
(*                               insertion order, and the value stored     *)
(*                               under PROVENANCE_KEY                      *)
(***************************************************************************)
Str(s) == [kind |-> "str", val |-> s]
Bool(b) == [kind |-> "bool", val |-> b]
PyNone == [kind |-> "none"]
List(items) == [kind |-> "list", items |-> items]
Entry(k, v) == [key |-> k, value |-> v]

\* no value stored under PROVENANCE_KEY
NoProv == [none |-> TRUE]
Dict(entries) == [kind |-> "dict", entries |-> entries, prov |-> NoProv]

\* _sentinel = object()
Sentinel == [kind |-> "sentinel"]

\* class Provenance and its subclasses: the file, line and column, plus
\* DictProvenance.members (by member name) or Member/ElementProvenance.elements
DictProvenance(file, line, col, members) ==
    [none |-> FALSE, file |-> file, line |-> line, col |-> col, members |-> members]
MemberProvenance(file, line, col, elements) ==
    [file |-> file, line |-> line, col |-> col, elements |-> elements]
ElementProvenance(file, line, col, elements) ==
    [file |-> file, line |-> line, col |-> col, elements |-> elements]

NoMembers == [k \in {} |-> 0]

Max(x, y) == IF x > y THEN x ELSE y

\* ---- dict primitives, on the members other than PROVENANCE_KEY ----
HasKey(node, key) == \E i \in 1..Len(node.entries) : node.entries[i].key = key

KeyIndex(node, key) == CHOOSE i \in 1..Len(node.entries) : node.entries[i].key = key

\* node[key]
DictGet(node, key) == node.entries[KeyIndex(node, key)].value

\* node.get(key, default)
DictGetDefault(node, key, default) ==
    IF HasKey(node, key) THEN DictGet(node, key) ELSE default

\* node[key] = value : an existing key keeps its position, a new one is appended
DictSet(node, key, value) ==
    IF HasKey(node, key)
    THEN [node EXCEPT !.entries[KeyIndex(node, key)].value = value]
    ELSE [node EXCEPT !.entries = Append(@, Entry(key, value))]

\* del node[key]
DictDel(node, key) ==
    [node EXCEPT !.entries = SelectSeq(@, LAMBDA e : e.key # key)]

\* members[key] = prov, on a DictProvenance
MembersSet(members, key, prov) ==
    [k \in DOMAIN members \cup {key} |-> IF k = key THEN prov ELSE members[k]]

MembersDel(members, key) ==
    [k \in DOMAIN members \ {key} |-> members[k]]

\* ---- decoration of a freshly parsed tree ----
\* The parser's line/column data: members and list items are numbered line
\* by line in document order, the column is the indentation.
\* node_decorate_list looks an item up with source.index(item), which finds
\* the first item equal to it.
FirstIndex(items, i) == CHOOSE j \in 1..i :
    /\ items[j] = items[i]
    /\ \A k \in 1..(j - 1) : items[k] # items[i]

Decorated(node, members, next) == [node |-> node, members |-> members, next |-> next]
DecoratedList(items, elements, next) == [items |-> items, elements |-> elements, next |-> next]

RECURSIVE node_decorate_dict(_, _, _, _), decorate_members(_, _, _, _, _, _),
          node_decorate_list(_, _, _, _, _, _)
node_decorate_dict(file, node, line, col) ==
    Let(decorate_members(file, node, 1, line, col, NoMembers), LAMBDA r :
        Decorated([r.node EXCEPT !.prov = DictProvenance(file, line, col, r.members)],
                  NoMembers, Max(r.next, line + 1)))

\* the for loop of node_decorate_dict from the i-th member on
decorate_members(file, node, i, line, col, members) ==
    IF i > Len(node.entries)
    THEN Decorated(node, members, line)
    ELSE Let(node.entries[i], LAMBDA e :
         CASE e.value.kind = "dict" ->
                Let(node_decorate_dict(file, e.value, line + 1, col + 2), LAMBDA d :
                    decorate_members(
                        file, [node EXCEPT !.entries[i].value = d.node],
                        i + 1, d.next, col,
                        MembersSet(members, e.key,
                            MemberProvenance(file, line + 1, col + 2, <<>>))))
           [] e.value.kind = "list" ->
                Let(node_decorate_list(file, e.value.items, 1, line + 1, col, <<>>),
                    LAMBDA l :
                    decorate_members(
                        file, [node EXCEPT !.entries[i].value = List(l.items)],
                        i + 1, Max(l.next, line + 1), col,
                        MembersSet(members, e.key,
                            MemberProvenance(file, line + 1, col, l.elements))))
           [] OTHER ->
                decorate_members(
                    file, node, i + 1, line + 1, col,
                    MembersSet(members, e.key,
                        MemberProvenance(file, line, col + 1, <<>>))))

\* the for loop of node_decorate_list from the i-th item on; the i-th item
\* starts at the given line
node_decorate_list(file, items, i, line, col, elements) ==
    IF i > Len(items)
    THEN DecoratedList(items, elements, line)
    ELSE Let(items[i], LAMBDA item :
         CASE item.kind = "dict" ->
                Let(node_decorate_dict(file, item, line, col + 2), LAMBDA d :
                    node_decorate_list(
                        file, [items EXCEPT ![i] = d.node], i + 1, d.next, col,
                        Append(elements, ElementProvenance(file, line, col + 2, <<>>))))
           [] item.kind = "list" ->
                Let(node_decorate_list(file, item.items, 1, line, col + 2, <<>>),
                    LAMBDA l :
                    node_decorate_list(
                        file, [items EXCEPT ![i] = List(l.items)], i + 1,
                        Max(l.next, line + 1), col,
                        Append(elements,
                               ElementProvenance(file, line, col + 2, l.elements))))
           [] OTHER ->
                Let(FirstIndex(items, i), LAMBDA idx :
                    node_decorate_list(
                        file, items, i + 1, line + 1, col,
                        Append(elements,
                               ElementProvenance(
                                   file, IF idx < i THEN elements[idx].line ELSE line,
                                   col + 2, <<>>)))))

\* load_data(): the decorated copy of a parsed toplevel mapping
load_data(file, contents) == node_decorate_dict(file, contents, 1, 0).node

\* node_get_provenance(node): the provenance of the dict itself
node_get_provenance(node) == node.prov

\* node_get_provenance(node, key=key): None when there is no provenance or
\* no such member
NoneProv == [none |-> TRUE]
node_get_member_provenance(node, key) ==
    IF node.prov.none THEN NoneProv
    ELSE IF key \in DOMAIN node.prov.members
         THEN [none |-> FALSE] @@ node.prov.members[key]
         ELSE NoneProv

\* node_get_provenance(node, key=key, indices=[index])
node_get_element_provenance(node, key, index) ==
    Let(node_get_member_provenance(node, key), LAMBDA member :
        IF member.none THEN NoneProv
        ELSE [none |-> FALSE] @@ member.elements[index])

\* ---- node_get() ----
Ok(value) == [err |-> "none", value |-> value]
Fail(reason) == [err |-> reason, value |-> PyNone]

\* str.strip() on the strings of the model
Strip(s) == IF s = " z " THEN "z" ELSE s

\* isinstance(value, expected_type) for expected_type in str, bool, list, dict
\* and collections.abc.Mapping
IsInstance(value, expected_type) ==
    \/ value.kind = expected_type
    \/ expected_type = "Mapping" /\ value.kind = "dict"

\* every expected_type can be constructed from a scalar
ConstructibleAlways(expected_type) == TRUE

\* expected_type(value) raises TypeError for the abstract class Mapping
Constructible(expected_type) == expected_type # "Mapping"

\* expected_type(value) for the scalar types: str(), bool()
Construct(expected_type, value) ==
    CASE expected_type = "str" /\ value.kind = "bool" ->
              Str(IF value.val THEN "True" ELSE "False")
      [] expected_type = "str" /\ value.kind = "none" -> Str("None")
      [] expected_type = "bool" /\ value.kind = "none" -> Bool(FALSE)
      [] OTHER -> value

\* Returned strings are stripped of leading and trailing whitespace
Stripped(v) == IF v.kind = "str" THEN Str(Strip(v.val)) ELSE v

\* node_get() that coerces a string to a boolean with bool()
node_get_truthy(node, expected_type, key, default_value, allow_none) ==
    Let(DictGetDefault(node, key, default_value), LAMBDA value :
        IF value = Sentinel
        THEN Fail("INVALID_DATA")
        ELSE IF value = PyNone /\ (allow_none \/ default_value = PyNone)
        THEN Ok(PyNone)
        ELSE IF ~IsInstance(value, expected_type)
        THEN IF expected_type = "bool" /\ value.kind = "str"
             THEN Ok(Bool(value.val # ""))
             ELSE IF ~(expected_type = "list" \/ expected_type = "dict"
                       \/ value.kind \in {"list", "dict"})
             THEN IF Constructible(expected_type)
                  THEN Ok(Stripped(Construct(expected_type, value)))
                  ELSE Fail("INVALID_DATA")
             ELSE Fail("INVALID_DATA")
        ELSE Ok(Stripped(value)))

\* node_get(node, expected_type, key, default_value=..., allow_none=...)
node_get(node, expected_type, key, default_value, allow_none) ==
    Let(DictGetDefault(node, key, default_value), LAMBDA value :
        IF value = Sentinel
        THEN Fail("INVALID_DATA")
        ELSE IF value = PyNone /\ (allow_none \/ default_value = PyNone)
        THEN Ok(PyNone)
        ELSE IF ~IsInstance(value, expected_type)
        THEN IF expected_type = "bool" /\ value.kind = "str"
             THEN IF value.val \in {"True", "true"} THEN Ok(Bool(TRUE))
                  ELSE IF value.val \in {"False", "false"} THEN Ok(Bool(FALSE))
                  ELSE Fail("INVALID_DATA")
             ELSE IF ~(expected_type = "list" \/ expected_type = "dict"
                       \/ value.kind \in {"list", "dict"})
             THEN IF Constructible(expected_type)
                  THEN Ok(Stripped(Construct(expected_type, value)))
                  ELSE Fail("INVALID_DATA")
             ELSE Fail("INVALID_DATA")
        ELSE Ok(Stripped(value)))

\* node_validate(node, valid_keys): the first key of node, in iteration
\* order, that is not valid is reported when it is a true value
node_validate(node, valid_keys) ==
    Let({i \in 1..Len(node.entries) : node.entries[i].key \notin valid_keys}, LAMBDA bad :
    Let(IF bad = {} THEN PyNone
        ELSE Str(node.entries[CHOOSE i \in bad : \A j \in bad : i <= j].key),
        LAMBDA invalid :
        IF invalid # PyNone /\ invalid.val # "" THEN "INVALID_DATA" ELSE "none"))

\* ---- cloning and copying ----
\* the first error of a list of outcomes, "none" when there is none
FirstErr(errs) ==
    IF \E i \in 1..Len(errs) : errs[i] # "none"
    THEN errs[CHOOSE i \in 1..Len(errs) :
                  errs[i] # "none" /\ \A j \in 1..(i - 1) : errs[j] = "none"]
    ELSE "none"

\* ElementProvenance.clone() stores e.clone, the bound method, for every
\* nested element instead of calling it
BoundMethod(e) == [method |-> "clone", self |-> e]
IsBoundMethod(e) == "method" \in DOMAIN e

\* ElementProvenance.clone(): a bound method has no attribute clone
ElementProvenance_clone_err(p) ==
    IF \E i \in 1..Len(p.elements) : IsBoundMethod(p.elements[i])
    THEN "AttributeError" ELSE "none"
ElementProvenance_clone(p) ==
    [p EXCEPT !.elements = [i \in 1..Len(p.elements) |-> BoundMethod(p.elements[i])]]

\* MemberProvenance.clone()
MemberProvenance_clone_err(p) ==
    FirstErr([i \in 1..Len(p.elements) |-> ElementProvenance_clone_err(p.elements[i])])
MemberProvenance_clone(p) ==
    [p EXCEPT !.elements =
         [i \in 1..Len(p.elements) |-> ElementProvenance_clone(p.elements[i])]]

\* DictProvenance.clone()
DictProvenance_clone_err(p) ==
    IF \E k \in DOMAIN p.members : MemberProvenance_clone_err(p.members[k]) # "none"
    THEN "AttributeError" ELSE "none"
DictProvenance_clone(p) ==
    [p EXCEPT !.members = [k \in DOMAIN p.members |-> MemberProvenance_clone(p.members[k])]]

\* ensure_provenance(node): a node without provenance gets a dummy one
DummyProvenance == DictProvenance("", 1, 0, NoMembers)
ensure_provenance(node) ==
    IF node.prov.none THEN [node EXCEPT !.prov = DummyProvenance] ELSE node

\* node_copy(source) and list_copy(source); the _err operators give the
\* exception the copy raises, "none" when it returns.  The value under
\* PROVENANCE_KEY is cloned after the members.
RECURSIVE node_copy(_), list_copy(_), value_copy(_),
          node_copy_err(_), list_copy_err(_), value_copy_err(_)
value_copy(v) ==
    CASE v.kind = "dict" -> node_copy(v)
      [] v.kind = "list" -> list_copy(v)
      [] OTHER -> v
value_copy_err(v) ==
    CASE v.kind = "dict" -> node_copy_err(v)
      [] v.kind = "list" -> list_copy_err(v)
      [] v.kind \in {"str", "bool"} -> "none"
      [] OTHER -> "ValueError"

list_copy(source) ==
    List([i \in 1..Len(source.items) |-> value_copy(source.items[i])])
list_copy_err(source) ==
    FirstErr([i \in 1..Len(source.items) |-> value_copy_err(source.items[i])])

node_copy(source) ==
    ensure_provenance(
        [kind |-> "dict",
         entries |-> [i \in 1..Len(source.entries) |->
                         Entry(source.entries[i].key, value_copy(source.entries[i].value))],
         prov |-> IF source.prov.none THEN NoProv ELSE DictProvenance_clone(source.prov)])
node_copy_err(source) ==
    FirstErr([i \in 1..Len(source.entries) |-> value_copy_err(source.entries[i].value)]
             \o <<IF source.prov.none THEN "none" ELSE DictProvenance_clone_err(source.prov)>>)

(***************************************************************************)
(* The composition engine (buildstream/_yaml.py)                           *)
(*                                                                         *)
(* Every operator returns the exception it raises ("none" when it          *)
(* returns) together with the target as the call leaves it: an exception   *)
(* does not undo the assignments made before it.                           *)
(***************************************************************************)
Directives == {"(>)", "(<)", "(=)"}

\* is_composite_list(node): a mapping mixing directives and other keys
\* raises, any value that is not a mapping is not a composite list
is_composite_list_err(node) ==
    IF /\ node.kind = "dict"
       /\ \E i \in 1..Len(node.entries) : node.entries[i].key \in Directives
       /\ \E i \in 1..Len(node.entries) : node.entries[i].key \notin Directives
    THEN "INVALID_DATA" ELSE "none"
is_composite_list(node) ==
    /\ node.kind = "dict"
    /\ \E i \in 1..Len(node.entries) : node.entries[i].key \in Directives

Done(err, did, target) == [err |-> err, did |-> did, target |-> target]

\* source_provenance.members[source_key].clone(), as lines 531, 570, 604
\* and 665 evaluate it: the exception, "none" when there is none
member_clone_err(source_node, source_key) ==
    IF source_node.prov.none THEN "AttributeError"
    ELSE IF source_key \notin DOMAIN source_node.prov.members THEN "KeyError"
    ELSE MemberProvenance_clone_err(source_node.prov.members[source_key])

\* The assignment of lines 531, 570, 604, 665 and 780 left out: the target
\* keeps the member record it had.
set_member_kept(target_node, target_key, source_node, source_key) ==
    Done("none", TRUE, target_node)

\* target_provenance.members[target_key] = source_provenance.members[source_key].clone()
\* on the target as the assignments before it left it
set_member_clone(target_node, target_key, source_node, source_key) ==
    IF member_clone_err(source_node, source_key) # "none"
    THEN Done(member_clone_err(source_node, source_key), FALSE, target_node)
    ELSE IF target_node.prov.none THEN Done("AttributeError", FALSE, target_node)
    ELSE Done("none", TRUE,
              [target_node EXCEPT !.prov.members =
                   MembersSet(@, target_key,
                       MemberProvenance_clone(source_node.prov.members[source_key]))])

\* composite_list_overwrite(target_node, target_key, source_node, source_key)
composite_list_overwrite(target_node, target_key, source_node, source_key) ==
    Let(node_get(source_node, "list", source_key, List(<<PyNone>>), FALSE), LAMBDA got :
        IF got.err # "none" THEN Done(got.err, FALSE, target_node)
        ELSE IF got.value = List(<<PyNone>>) THEN Done("none", FALSE, target_node)
        ELSE IF list_copy_err(got.value) # "none"
        THEN Done(list_copy_err(got.value), FALSE, target_node)
        ELSE set_member_clone(DictSet(target_node, target_key, list_copy(got.value)),
                              target_key, source_node, source_key))

\* lines 530-534 and 569-574: the clones of the element provenances of the
\* source are joined to the target's, or the member provenance is cloned
\* when the target has none
join_member_elements(target_node, target_key, source_node, source_key, join(_, _)) ==
    IF target_node.prov.none THEN Done("AttributeError", FALSE, target_node)
    ELSE IF target_key \notin DOMAIN target_node.prov.members
    THEN set_member_clone(target_node, target_key, source_node, source_key)
    ELSE IF source_node.prov.none THEN Done("AttributeError", FALSE, target_node)
    ELSE IF source_key \notin DOMAIN source_node.prov.members
    THEN Done("KeyError", FALSE, target_node)
    ELSE Let(source_node.prov.members[source_key].elements, LAMBDA elements :
         IF \E i \in 1..Len(elements) : ElementProvenance_clone_err(elements[i]) # "none"
         THEN Done("AttributeError", FALSE, target_node)
         ELSE Done("none", TRUE,
                   [target_node EXCEPT !.prov.members[target_key].elements =
                        join([i \in 1..Len(elements) |-> ElementProvenance_clone(elements[i])],
                             @)]))

\* The common shape of composite_list_prepend and composite_list_append:
\* the copied source list is joined to the target's by the operator
\* join (new, old).
composite_list_join(target_node, target_key, source_node, source_key, join(_, _)) ==
    Let(node_get(source_node, "list", source_key, List(<<>>), FALSE), LAMBDA got :
        IF got.err # "none" THEN Done(got.err, FALSE, target_node)
        ELSE IF got.value.items = <<>> THEN Done("none", FALSE, target_node)
        ELSE Let(IF DictGetDefault(target_node, target_key, PyNone) = PyNone
                 THEN DictSet(target_node, target_key, List(<<>>))
                 ELSE target_node, LAMBDA started :
             IF list_copy_err(got.value) # "none"
             THEN Done(list_copy_err(got.value), FALSE, started)
             ELSE IF DictGet(started, target_key).kind # "list"
             THEN Done("AttributeError", FALSE, started)
             ELSE join_member_elements(
                      DictSet(started, target_key,
                              List(join(list_copy(got.value).items,
                                        DictGet(started, target_key).items))),
                      target_key, source_node, source_key, join)))

\* list.insert(0, ...) of the source as it is, not reversed: its elements
\* end up in the opposite order
JoinBeforeUnreversed(new, old) ==
    [i \in 1..Len(new) |-> new[Len(new) + 1 - i]] \o old

\* list.insert(0, ...) of the reversed source: the source before the target
JoinBefore(new, old) == new \o old
\* list.extend(...): the source after the target
JoinAfter(new, old) == old \o new

\* composite_list_prepend without lines 530-534: the elements are inserted
\* and the provenance of the target is left as it was.
composite_list_prepend_items_only(target_node, target_key, source_node, source_key) ==
    Let(composite_list_join(target_node, target_key, source_node, source_key, JoinBefore),
        LAMBDA r : IF r.did THEN Done(r.err, r.did, [r.target EXCEPT !.prov = target_node.prov])
                   ELSE r)

\* composite_list_prepend(target_node, target_key, source_node, source_key)
composite_list_prepend(target_node, target_key, source_node, source_key) ==
    composite_list_join(target_node, target_key, source_node, source_key, JoinBefore)

\* composite_list_append(target_node, target_key, source_node, source_key)
composite_list_append(target_node, target_key, source_node, source_key) ==
    composite_list_join(target_node, target_key, source_node, source_key, JoinAfter)

\* an exception ends the sequence, otherwise the next call goes on
AndThen(r, Following(_)) == IF r.err # "none" THEN r ELSE Following(r)

\* Lines 654-665 resolving the directives at once, onto an empty list,
\* instead of keeping them.
composite_list_copy_in_resolved(target_node, source_node, key) ==
    AndThen(composite_list_overwrite(DictSet(target_node, key, List(<<>>)), key,
                                     DictGet(source_node, key), "(=)"), LAMBDA o :
    AndThen(composite_list_prepend(o.target, key, DictGet(source_node, key), "(<)"),
            LAMBDA q :
            composite_list_append(q.target, key, DictGet(source_node, key), "(>)")))

\* lines 654-665: the target has no value at the key, the composite list
\* is copied as it is
composite_list_copy_in(target_node, source_node, key) ==
    IF node_copy_err(DictGet(source_node, key)) # "none"
    THEN Done(node_copy_err(DictGet(source_node, key)), FALSE, target_node)
    ELSE set_member_clone(DictSet(target_node, key, node_copy(DictGet(source_node, key))),
                          key, source_node, key)

\* lines 671-674: the target holds a literal list, the directives of the
\* source are applied to it
composite_list_onto_literal(target_node, source_value, key) ==
    AndThen(composite_list_overwrite(target_node, key, source_value, "(=)"), LAMBDA o :
    AndThen(composite_list_prepend(o.target, key, source_value, "(<)"), LAMBDA p :
            composite_list_append(p.target, key, source_value, "(>)")))

\* lines 689-695: del target_value[directive] and its provenance member;
\* the KeyError of a key that is not there is ignored
drop_directive(target_value, directive) ==
    IF ~HasKey(target_value, directive) THEN target_value
    ELSE IF directive \in DOMAIN target_value.prov.members
    THEN [DictDel(target_value, directive) EXCEPT !.prov.members = MembersDel(@, directive)]
    ELSE DictDel(target_value, directive)

\* Lines 683-695 without the removal of the target's prepend and append
\* directives.
drop_accumulated_kept(target_value) == target_value

\* lines 689-695: the loop over both directives
drop_accumulated(target_value) ==
    drop_directive(drop_directive(target_value, "(<)"), "(>)")

\* Lines 681-699 keeping the directives of the source only: nothing of the
\* target is accumulated.
composite_list_onto_composite_last(target_value, source_value) ==
    Done("none", TRUE, [source_value EXCEPT !.prov = target_value.prov])

\* lines 681-699: both sides are composite lists
composite_list_onto_composite(target_value, source_value) ==
    AndThen(composite_list_overwrite(target_value, "(=)", source_value, "(=)"), LAMBDA o :
    AndThen(composite_list_prepend(IF o.did THEN drop_accumulated(o.target) ELSE o.target,
                                   "(<)", source_value, "(<)"), LAMBDA p :
            composite_list_append(p.target, "(>)", source_value, "(>)")))

\* The assertion of lines 641-646 refusing mappings only: a scalar is
\* overwritten as a list is.
list_target_refused_mappings_only(target_value) ==
    IF target_value = PyNone \/ target_value.kind # "dict" THEN "none"
    ELSE IF is_composite_list_err(target_value) # "none" THEN "INVALID_DATA"
    ELSE IF is_composite_list(target_value) THEN "none"
    ELSE "INVALID_DATA"

\* lines 641-646: the outcome of the assertion on the target of a literal
\* list
list_target_refused(target_value) ==
    IF target_value = PyNone \/ target_value.kind = "list" THEN "none"
    ELSE IF is_composite_list_err(target_value) # "none" THEN "INVALID_DATA"
    ELSE IF is_composite_list(target_value) THEN "none"
    ELSE "INVALID_DATA"

\* the source value was a logical list and was handled
Handled(r) == Done(r.err, r.err = "none", r.target)

\* lines 654-704: the source value is a composite list
composite_list_directives(target_node, source_node, key, target_value, source_value) ==
    IF target_value = PyNone
    THEN Handled(composite_list_copy_in(target_node, source_node, key))
    ELSE IF target_value.kind = "list"
    THEN Handled(composite_list_onto_literal(target_node, source_value, key))
    ELSE IF is_composite_list_err(target_value) # "none"
    THEN Done("INVALID_DATA", FALSE, target_node)
    ELSE IF is_composite_list(target_value)
    THEN Let(composite_list_onto_composite(target_value, source_value), LAMBDA c :
             Done(c.err, c.err = "none", DictSet(target_node, key, c.target)))
    ELSE Done("INVALID_DATA", FALSE, target_node)

\* composite_list(target_node, source_node, key): did tells whether the
\* source value was a logical list
composite_list(target_node, source_node, key) ==
    Let(DictGetDefault(target_node, key, PyNone), LAMBDA target_value :
    Let(DictGet(source_node, key), LAMBDA source_value :
        IF source_value.kind = "list"
        THEN IF list_target_refused(target_value) # "none"
             THEN Done(list_target_refused(target_value), FALSE, target_node)
             ELSE Handled(composite_list_overwrite(target_node, key, source_node, key))
        ELSE IF is_composite_list_err(source_value) # "none"
        THEN Done("INVALID_DATA", FALSE, target_node)
        ELSE IF is_composite_list(source_value)
        THEN composite_list_directives(target_node, source_node, key,
                                       target_value, source_value)
        ELSE Done("none", FALSE, target_node)))

\* the outcome of composite_dict: the exception it raises, the target and
\* the source as it leaves them, for a CompositeTypeError the path and the
\* two types the exception carries, and the objects that the call left in
\* both trees: an assignment without clone() or copy makes the target hold
\* the very object of the source
Composed(err, target, source) ==
    [err |-> err, target |-> target, source |-> source,
     path |-> <<>>, expected_type |-> "", actual_type |-> "", shared |-> {}]
CompositeTypeError(thispath, expected_type, actual_type, target, source) ==
    [err |-> "CompositeTypeError", target |-> target, source |-> source,
     path |-> thispath, expected_type |-> expected_type, actual_type |-> actual_type,
     shared |-> {}]

\* an object held by both trees: where it is and of what class
SharedObject(path, class) == [path |-> path, class |-> class]
AlsoShared(r, objects) == [r EXCEPT !.shared = @ \cup objects]

\* line 761: target_provenance.members[key] = source_provenance.members[key]
aliased_member(thispath) == {SharedObject(thispath, "MemberProvenance")}

\* lines 756-758: the new dict gets a clone of the source value's provenance
new_dict(source_value) ==
    IF source_value.prov.none THEN Dict(<<>>)
    ELSE [Dict(<<>>) EXCEPT !.prov = DictProvenance_clone(source_value.prov)]

\* lines 751-761: a new dict on the target side; the member provenance of
\* the containing dict is the source's own object, not a clone
create_target_dict(target, source, key) ==
    Let(DictGet(source, key), LAMBDA source_value :
        IF ~source_value.prov.none /\ DictProvenance_clone_err(source_value.prov) # "none"
        THEN Composed("AttributeError", DictSet(target, key, Dict(<<>>)), source)
        ELSE IF key \notin DOMAIN source.prov.members
        THEN Composed("KeyError", DictSet(target, key, new_dict(source_value)), source)
        ELSE Composed("none",
                      [DictSet(target, key, new_dict(source_value))
                           EXCEPT !.prov.members =
                               MembersSet(@, key, source.prov.members[key])],
                      source))

\* Lines 771-781 without the check of the types: the source's value
\* overwrites whatever the target holds.
composite_scalar_unchecked(target, source, key, thispath) ==
    Let(set_member_clone(target, key, source, key), LAMBDA m :
        IF m.err # "none" THEN Composed(m.err, target, source)
        ELSE Composed("none", DictSet(m.target, key, DictGet(source, key)), source))

\* lines 771-781: a value that is neither a list nor a mapping
composite_scalar(target, source, key, thispath) ==
    Let(DictGet(source, key), LAMBDA source_value :
    Let(DictGetDefault(target, key, PyNone), LAMBDA target_value :
        IF /\ target_value # PyNone
           /\ ~(source_value.kind = "str" /\ target_value.kind = "str")
           /\ source_value.kind # target_value.kind
        THEN CompositeTypeError(thispath, target_value.kind, source_value.kind,
                                target, source)
        ELSE Let(set_member_clone(target, key, source, key), LAMBDA m :
                 IF m.err # "none" THEN Composed(m.err, target, source)
                 ELSE Composed("none", DictSet(m.target, key, source_value), source))))

\* Lines 748-767 replacing the target's value by a copy of the source's
\* mapping instead of composing into it.
composite_mapping_replacing(target, source, key, thispath) ==
    Composed("none", DictSet(target, key, node_copy(DictGet(source, key))), source)

\* composite_dict(target, source, path); composite_members is its for loop
\* from the i-th member of source on, composite_mapping lines 748-767
RECURSIVE composite_dict(_, _, _), composite_members(_, _, _, _),
          composite_mapping(_, _, _, _)
composite_dict(target, source, path) ==
    composite_members(ensure_provenance(target), ensure_provenance(source), 1, path)

composite_mapping(target, source, key, thispath) ==
    Let(IF DictGetDefault(target, key, PyNone) = PyNone
        THEN create_target_dict(target, source, key)
        ELSE Composed("none", target, source), LAMBDA made :
        IF made.err # "none" THEN made
        ELSE IF DictGet(made.target, key).kind # "dict"
        THEN CompositeTypeError(thispath, DictGet(target, key).kind, "dict",
                                target, source)
        ELSE Let(composite_dict(DictGet(made.target, key), DictGet(source, key), thispath),
                 LAMBDA sub :
                 [sub EXCEPT !.target = DictSet(made.target, key, sub.target),
                             !.source = DictSet(source, key, sub.source),
                             !.shared = IF DictGetDefault(target, key, PyNone) = PyNone
                                        THEN @ \cup aliased_member(thispath)
                                        ELSE @]))

composite_members(target, source, i, path) ==
    IF i > Len(source.entries)
    THEN Composed("none", target, source)
    ELSE Let(source.entries[i].key, LAMBDA key :
         Let(composite_list(target, source, key), LAMBDA l :
             IF l.err # "none" THEN Composed(l.err, l.target, source)
             ELSE IF l.did THEN composite_members(l.target, source, i + 1, path)
             ELSE AndThen(IF source.entries[i].value.kind = "dict"
                          THEN composite_mapping(target, source, key, Append(path, key))
                          ELSE composite_scalar(target, source, key, Append(path, key)),
                          LAMBDA r : AlsoShared(composite_members(r.target, r.source,
                                                                  i + 1, path),
                                                r.shared))))

\* The conversion of lines 792-801 applied to every exception of the
\* composition, not only to CompositeTypeError.
convert_error_any(r) ==
    IF r.err # "none" THEN [r EXCEPT !.err = "ILLEGAL_COMPOSITE"] ELSE r

\* lines 792-801: a CompositeTypeError becomes a LoadError with the reason
\* ILLEGAL_COMPOSITE
convert_error(r) ==
    IF r.err = "CompositeTypeError" THEN [r EXCEPT !.err = "ILLEGAL_COMPOSITE"] ELSE r

\* composite(target, source)
composite(target, source) == convert_error(composite_dict(target, source, <<>>))

RECURSIVE move_members(_, _, _), move_members_held_only(_, _, _)
\* Lines 810-811 assigning only the keys that target holds already.
move_members_held_only(target, source, i) ==
    IF i > Len(source.entries) THEN target
    ELSE move_members_held_only(
             IF HasKey(target, source.entries[i].key)
             THEN DictSet(target, source.entries[i].key, source.entries[i].value)
             ELSE target,
             source, i + 1)

\* lines 810-811: for key, value in source.items(): target[key] = value,
\* from the i-th member of source on; a key of target keeps its place, a
\* new one is appended
move_members(target, source, i) ==
    IF i > Len(source.entries) THEN target
    ELSE move_members(DictSet(target, source.entries[i].key, source.entries[i].value),
                      source, i + 1)

\* lines 809 and 812-813: the keys of target that source does not hold are
\* deleted
delete_missing(target, source) ==
    [target EXCEPT !.entries = SelectSeq(@, LAMBDA e : HasKey(source, e.key))]

\* lines 810-811 assign the values of source themselves: the mappings, the
\* lists and the value under PROVENANCE_KEY are then held by both trees
moved_objects(source) ==
    {SharedObject(<<source.entries[i].key>>, source.entries[i].value.kind) :
         i \in {j \in 1..Len(source.entries) :
                    source.entries[j].value.kind \in {"dict", "list"}}}
    \cup (IF source.prov.none THEN {} ELSE {SharedObject(<<>>, "DictProvenance")})

\* the outcome of composite_and_move: the exception, both trees as the
\* call leaves them and the objects they share
Moved(err, target, source, shared) ==
    [err |-> err, target |-> target, source |-> source, shared |-> shared]

\* composite_and_move(target, source)
composite_and_move(target, source) ==
    Let(composite(source, target), LAMBDA r :
        IF r.err # "none" THEN Moved(r.err, target, r.target, r.shared)
        ELSE Moved("none",
                   [delete_missing(move_members(target, r.target, 1), r.target)
                        EXCEPT !.prov = r.target.prov],
                   r.target,
                   r.shared \cup moved_objects(r.target)))

\* ---- the trees that are composed ----
Seq1(x) == <<x>>
Seq2(x, y) == <<x, y>>
StrList(names) == List([i \in 1..Len(names) |-> Str(names[i])])
One(key, value) == Dict(Seq1(Entry(key, value)))
Two(k1, v1, k2, v2) == Dict(Seq2(Entry(k1, v1), Entry(k2, v2)))

\* literal lists, as a YAML document writes them
LiteralLists == {StrList(<<>>), StrList(Seq1("x")), StrList(Seq2("x", "y"))}

\* mappings of composition directives
DirectiveMappings ==
    { One("(<)", StrList(Seq1("a"))),
      One("(>)", StrList(Seq1("b"))),
      One("(=)", StrList(Seq1("c"))),
      One("(=)", StrList(<<>>)),
      Two("(<)", StrList(Seq2("a", "d")), "(>)", StrList(Seq2("b", "e"))),
      Two("(=)", StrList(Seq1("c")), "(<)", StrList(Seq1("a"))) }

\* a mapping without directives, and one that mixes both
OrdinaryMapping == One("j", Str("s"))
EmptyMapping == Dict(<<>>)
MixedMapping == Two("(<)", StrList(Seq1("a")), "j", Str("s"))

\* the values a document gives the key "k" at its top level, and the values
\* it gives "k" inside the mapping "m"
TopValues ==
    {Str("s"), Bool(TRUE)} \cup LiteralLists \cup DirectiveMappings
                \cup {OrdinaryMapping, EmptyMapping, MixedMapping}
NestedValues ==
    {Str("s"), StrList(Seq1("x")), One("(<)", StrList(Seq1("a"))), OrdinaryMapping}

\* the documents: empty, "k" at the top level, "k" inside "m"
\* a document that gives the mapping "m" another member than "k"
SiblingDocument == One("m", One("j", Str("t")))

Documents ==
    {Dict(<<>>)} \cup {One("k", v) : v \in TopValues}
                 \cup {One("m", One("k", v)) : v \in NestedValues}
                 \cup {SiblingDocument}

\* the name of the file a layer is loaded from
LayerFile(n) == IF n = 0 THEN "base.yaml" ELSE IF n = 1 THEN "first.yaml" ELSE "later.yaml"

NoComposition ==
    [op |-> "none", err |-> "none", n |-> 0, before |-> Dict(<<>>), source |-> Dict(<<>>),
     source_after |-> Dict(<<>>), shared |-> {}]

\* nothing is being composed
ComposeIdle ==
    /\ target_tree = Dict(<<>>)
    /\ composed = NoComposition

\* No helper of the YAML layer has been called yet.
NoCall ==
    [op |-> "none", err |-> "none", before |-> Dict(<<>>), valid_keys |-> {}]

HelperIdle ==
    /\ helper_tree = Dict(<<>>)
    /\ helper_call = NoCall

\* class Consistency
Consistency_INCONSISTENT == 0
Consistency_RESOLVED == 1
Consistency_CACHED == 2

\* ProjectRefStorage
ProjectRefStorage_INLINE == "inline"
ProjectRefStorage_PROJECT_REFS == "project.refs"

\* a ref that is None
NoRef == "None"

\* A Source as __init__ leaves it.  is_toplevel: the source's project is
\* the toplevel project; ref_storage: toplevel.ref_storage; refs_node and
\* element_node: the ref held by the node of project.refs and by the node of
\* the element (provenance.node); refs_file and element_file: the ref in
\* the files as they were last written.
NewSource(ref, is_toplevel, ref_storage) ==
    [ref |-> ref, consistency |-> Consistency_INCONSISTENT,
     is_toplevel |-> is_toplevel, ref_storage |-> ref_storage,
     refs_node |-> NoRef, element_node |-> ref,
     refs_file |-> NoRef, element_file |-> ref]

NoSourceCall == [op |-> "none", err |-> "none"]

SourceIdle ==
    /\ source_state = NewSource(NoRef, TRUE, ProjectRefStorage_INLINE)
    /\ source_call = NoSourceCall

(***************************************************************************)
(* _extract_depends_from_node() (buildstream/_loader/loadelement.py)       *)
(***************************************************************************)
\* class Symbol of _loader/types.py
Symbol_FILENAME == "filename"
Symbol_TYPE == "type"
Symbol_JUNCTION == "junction"
Symbol_BUILD == "build"
Symbol_RUNTIME == "runtime"
Symbol_ALL == "all"
Symbol_DEPENDS == "depends"
Symbol_BUILD_DEPENDS == "build-depends"
Symbol_RUNTIME_DEPENDS == "runtime-depends"

\* class Dependency of _loader/types.py
Dependency(name, dep_type, junction, provenance) ==
    [name |-> name, dep_type |-> dep_type, junction |-> junction,
     provenance |-> provenance]

\* lines 137-142
default_dep_type(key) ==
    CASE key = Symbol_BUILD_DEPENDS -> Str(Symbol_BUILD)
      [] key = Symbol_RUNTIME_DEPENDS -> Str(Symbol_RUNTIME)
      [] key = Symbol_DEPENDS -> PyNone

\* lines 172-177: a structured entry whose type is settled
structured_dependency(dep, dep_type, dep_provenance) ==
    Let(node_get(dep, "str", Symbol_FILENAME, Sentinel, FALSE), LAMBDA filename :
    Let(node_get(dep, "str", Symbol_JUNCTION, PyNone, FALSE), LAMBDA junction :
        IF filename.err # "none" THEN Fail(filename.err)
        ELSE IF junction.err # "none" THEN Fail(junction.err)
        ELSE Ok(Dependency(filename.value, dep_type, junction.value, dep_provenance))))

\* The body of the for loop without the checks of lines 166-170 and
\* 179-181: any declared type is taken over, any other entry is taken as
\* a name.
extract_dependency_unchecked(node, key, index, dep) ==
    Let(node_get_element_provenance(node, key, index), LAMBDA dep_provenance :
    Let(IF dep.kind # "dict" THEN PyNone
        ELSE IF default_dep_type(key) # PyNone THEN default_dep_type(key)
        ELSE node_get(dep, "str", Symbol_TYPE, PyNone, FALSE).value, LAMBDA dep_type :
        IF dep.kind = "dict"
        THEN structured_dependency(dep, dep_type, dep_provenance)
        ELSE Ok(Dependency(dep, default_dep_type(key), PyNone, dep_provenance))))

\* lines 156-170: the type of a structured entry, [err, value]
structured_dep_type(key, dep) ==
    IF default_dep_type(key) # PyNone
    THEN IF node_validate(dep, {Symbol_FILENAME, Symbol_JUNCTION}) # "none"
         THEN Fail("INVALID_DATA")
         ELSE Ok(default_dep_type(key))
    ELSE IF node_validate(dep, {Symbol_FILENAME, Symbol_TYPE, Symbol_JUNCTION}) # "none"
         THEN Fail("INVALID_DATA")
         ELSE Let(node_get(dep, "str", Symbol_TYPE, PyNone, FALSE), LAMBDA dep_type :
                  IF dep_type.err # "none" THEN Fail(dep_type.err)
                  ELSE IF dep_type.value = PyNone \/ dep_type.value = Str(Symbol_ALL)
                  THEN Ok(PyNone)
                  ELSE IF dep_type.value \notin {Str(Symbol_BUILD), Str(Symbol_RUNTIME)}
                  THEN Fail("INVALID_DATA")
                  ELSE Ok(dep_type.value))

\* lines 150-181: the body of the for loop, for the entry dep at a
\* (1-based) index of node[key]
extract_dependency(node, key, index, dep) ==
    Let(node_get_element_provenance(node, key, index), LAMBDA dep_provenance :
        IF dep.kind = "str"
        THEN Ok(Dependency(dep, default_dep_type(key), PyNone, dep_provenance))
        ELSE IF dep.kind = "dict"
        THEN Let(structured_dep_type(key, dep), LAMBDA dep_type :
                 IF dep_type.err # "none" THEN Fail(dep_type.err)
                 ELSE structured_dependency(dep, dep_type.value, dep_provenance))
        ELSE Fail("INVALID_DATA"))

\* lines 149-183: the for loop from the given index on
RECURSIVE extract_loop(_, _, _, _, _)
extract_loop(node, key, depends, index, output_deps) ==
    IF index > Len(depends)
    THEN [err |-> "none", deps |-> output_deps]
    ELSE Let(extract_dependency(node, key, index, depends[index]), LAMBDA d :
             IF d.err # "none"
             THEN [err |-> d.err, deps |-> output_deps]
             ELSE extract_loop(node, key, depends, index + 1,
                               Append(output_deps, d.value)))

Extracted(err, output_deps, node) == [err |-> err, deps |-> output_deps, node |-> node]

\* _extract_depends_from_node(node, key=key): the dependencies of one
\* field, and the node with the field deleted
extract_depends_from_key(node, key) ==
    Let(node_get(node, "list", key, List(<<>>), FALSE), LAMBDA depends :
        IF depends.err # "none"
        THEN Extracted(depends.err, <<>>, node)
        ELSE Let(extract_loop(node, key, depends.value.items, 1, <<>>), LAMBDA r :
                 IF r.err # "none"
                 THEN Extracted(r.err, <<>>, node)
                 ELSE Extracted("none", r.deps,
                                IF HasKey(node, key) THEN DictDel(node, key) ELSE node)))

\* The concatenation of line 136 in the order the fields are named in the
\* element format: depends first.
concatenate_generic_first(build_depends, runtime_depends, depends) ==
    depends \o build_depends \o runtime_depends

\* line 136: the concatenation of the three lists
concatenate(build_depends, runtime_depends, depends) ==
    build_depends \o runtime_depends \o depends

\* _extract_depends_from_node(node): an error leaves the node as the
\* fields extracted before it left it
extract_depends_from_node(node) ==
    Let(extract_depends_from_key(node, Symbol_BUILD_DEPENDS), LAMBDA b :
        IF b.err # "none" THEN b
        ELSE Let(extract_depends_from_key(b.node, Symbol_RUNTIME_DEPENDS), LAMBDA r :
        IF r.err # "none" THEN r
        ELSE Let(extract_depends_from_key(r.node, Symbol_DEPENDS), LAMBDA d :
        IF d.err # "none" THEN d
        ELSE Extracted("none", concatenate(b.deps, r.deps, d.deps), d.node))))

\* ---- the element trees extraction is run on ----
DependsEntries ==
    { Str("x"),
      Dict(<<Entry("filename", Str(" z "))>>),
      Dict(<<Entry("filename", Str("y")), Entry("type", Str("all")),
             Entry("junction", Str("j"))>>),
      Dict(<<Entry("type", Str("build")), Entry("filename", Str("y"))>>),
      Dict(<<Entry("filename", Str("x")), Entry("type", Str("runtime"))>>),
      Dict(<<Entry("filename", Str("y")), Entry("type", Str("bogus"))>>),
      Dict(<<Entry("type", Str("build"))>>),
      Dict(<<Entry("filename", Str("x")), Entry("strict", Str("y"))>>),
      List(<<Str("x")>>) }

BuildEntries ==
    { Str("b"),
      Dict(<<Entry("filename", Str("c")), Entry("junction", Str("j"))>>),
      Bool(TRUE) }

RuntimeEntries ==
    { Str("r"), List(<<>>) }

\* a field is absent (<<>>) or present with one of the given values
Field(key, values) == {<<>>} \cup {<<Entry(key, v)>> : v \in values}

ElementTrees ==
    { load_data("element.bst",
          Dict(<<Entry("kind", Str("import"))>> \o d \o b \o r
               \o <<Entry("config", Dict(<<Entry("source", Str("/"))>>))>>)) :
        d \in Field(Symbol_DEPENDS,
                    {List(l) : l \in SeqsUpTo(DependsEntries, MaxEntries)}
                    \cup {Str("x")}),
        b \in Field(Symbol_BUILD_DEPENDS,
                    {List(l) : l \in SeqsUpTo(BuildEntries, 2)}),
        r \in Field(Symbol_RUNTIME_DEPENDS,
                    {List(l) : l \in SeqsUpTo(RuntimeEntries, 1)}) }

NotExtracted == [done |-> FALSE, err |-> "none", deps |-> <<>>, before |-> Dict(<<>>)]

\* no element node is being loaded
ExtractIdle ==
    /\ tree = Dict(<<>>)
    /\ extraction = NotExtracted

(***************************************************************************)
(* LoadElement: depends() and _ensure_depends_cache()                      *)
(***************************************************************************)
\* The registered elements of the top-level project.  The project has no
\* junction, so full_name = name (LoadElement.__init__, else branch).
Elements == {"a", "b", "c"}

full_name(e) == e

\* Loader.get_element_for_dep(): resolves a dependency of the same project
\* to the registered element of that name.
get_element_for_dep(dep) == dep

\* self._dep_cache = None
NoCache == [none |-> TRUE, keys |-> {}]
\* a dict whose keys are full names, every value being True
Cache(keys) == [none |-> FALSE, keys |-> keys]

\* Python truth value of self._dep_cache: None and {} are both false
Truthy(cache) == ~cache.none /\ cache.keys # {}

\* The lists of dependencies an element can declare: every list of distinct
\* element names (duplicate declarations are rejected before the graph is
\* queried), in every order.
DepLists ==
    {l \in SeqsUpTo(Elements, MaxDeps) :
        \A i, j \in 1..Len(l) : i # j => l[i] # l[j]}

Min(x, y) == IF x < y THEN x ELSE y

\* _ensure_depends_cache() of element e, called at stack depth d, on the
\* object state st = [cache, computed, err].  ensure_loop is the for loop
\* from its i-th iteration on.
\* Lines 110-114 with the transitive update left out: only the direct
\* dependency is recorded.
cache_update_direct_only(cache, elt, elt_cache) ==
    Cache(cache.keys \cup {full_name(elt)})

\* self._dep_cache[elt.full_name] = True
\* self._dep_cache.update(elt._dep_cache)
cache_update(cache, elt, elt_cache) ==
    Cache(cache.keys \cup {full_name(elt)} \cup elt_cache.keys)

RECURSIVE ensure_depends_cache(_, _, _), ensure_loop(_, _, _, _)
ensure_depends_cache(st, e, d) ==
    IF d > MaxRecursion
    THEN [st EXCEPT !.err = "RecursionError"]
    ELSE IF Truthy(st.cache[e])
    THEN st
    ELSE ensure_loop([st EXCEPT !.cache[e] = Cache({}),
                                !.computed[e] = Min(@ + 1, MaxComputed)],
                     e, 1, d)

ensure_loop(st, e, i, d) ==
    IF i > Len(deps[e])
    THEN st
    ELSE LET elt == get_element_for_dep(deps[e][i])
             st1 == ensure_depends_cache(st, elt, d + 1)
         IN  IF st1.err # "none"
             THEN st1
             ELSE ensure_loop(
                      [st1 EXCEPT !.cache[e] = cache_update(@, elt, st1.cache[elt])],
                      e, i + 1, d)

NoQuery == [self |-> "none", other |-> "none", result |-> FALSE, err |-> "none"]

\* no element is registered
LoadIdle ==
    /\ deps = [e \in Elements |-> <<>>]
    /\ dep_cache = [e \in Elements |-> NoCache]
    /\ computed = [e \in Elements |-> 0]
    /\ query = NoQuery

LoadInit ==
    /\ deps \in [Elements -> DepLists]
    /\ dep_cache = [e \in Elements |-> NoCache]
    /\ computed = [e \in Elements |-> 0]
    /\ query = NoQuery
    /\ ExtractIdle
    /\ ComposeIdle
    /\ HelperIdle
    /\ SourceIdle

\* self.depends(other)
depends(self, other) ==
    LET st == ensure_depends_cache(
                  [cache |-> dep_cache, computed |-> computed, err |-> "none"],
                  self, 1)
    IN  /\ dep_cache' = st.cache
        /\ computed' = st.computed
        /\ query' = [self |-> self, other |-> other,
                     result |-> IF st.err = "none"
                                THEN full_name(other) \in st.cache[self].keys
                                ELSE FALSE,
                     err |-> st.err]
        /\ UNCHANGED deps
        /\ UNCHANGED extractVars
        /\ UNCHANGED composeVars
        /\ UNCHANGED helperVars
        /\ UNCHANGED sourceVars

LoadNext == \E self \in Elements, other \in Elements : depends(self, other)

SpecLoad == LoadInit /\ [][LoadNext]_vars

(***************************************************************************)
(* Extraction of the dependencies of a loaded element node                 *)
(***************************************************************************)
ExtractInit ==
    /\ tree \in ElementTrees
    /\ extraction = NotExtracted
    /\ LoadIdle
    /\ ComposeIdle
    /\ HelperIdle
    /\ SourceIdle

\* self.deps = _extract_depends_from_node(self.node)
extract ==
    /\ ~extraction.done
    /\ LET r == extract_depends_from_node(tree)
       IN  /\ tree' = r.node
           /\ extraction' = [done |-> TRUE, err |-> r.err, deps |-> r.deps,
                             before |-> tree]
    /\ UNCHANGED loadVars
    /\ UNCHANGED composeVars
    /\ UNCHANGED helperVars
    /\ UNCHANGED sourceVars

ExtractNext == extract

SpecExtract == ExtractInit /\ [][ExtractNext]_vars

(***************************************************************************)
(* Composition of layers of configuration                                  *)
(***************************************************************************)
\* the tree starts as a loaded document or as an empty dict made in code
ComposeInit ==
    /\ target_tree \in {load_data(LayerFile(0), d) : d \in Documents} \cup {Dict(<<>>)}
    /\ composed = NoComposition
    /\ LoadIdle
    /\ ExtractIdle
    /\ HelperIdle
    /\ SourceIdle

Composition(op, r, before, source) ==
    [op |-> op, err |-> r.err, n |-> composed.n + 1, before |-> before, source |-> source,
     source_after |-> r.source, shared |-> r.shared]

\* composite(target_tree, source), source loaded from the next layer's file
compose(document) ==
    /\ composed.n < MaxLayers
    /\ composed.err = "none"
    /\ \E source \in {load_data(LayerFile(composed.n + 1), document)} :
       \E r \in {composite(target_tree, source)} :
          /\ target_tree' = r.target
          /\ composed' = Composition("compose", r, target_tree, source)
    /\ UNCHANGED loadVars
    /\ UNCHANGED extractVars
    /\ UNCHANGED helperVars
    /\ UNCHANGED sourceVars

\* composite(base, target_tree): the tree composed so far is the source that is
\* composed onto a freshly loaded base, and the result is carried on
compose_onto(document) ==
    /\ composed.n < MaxLayers
    /\ composed.err = "none"
    /\ \E base \in {load_data(LayerFile(composed.n + 1), document)} :
       \E r \in {composite(base, target_tree)} :
          /\ target_tree' = r.target
          /\ composed' = Composition("compose_onto", r, base, target_tree)
    /\ UNCHANGED loadVars
    /\ UNCHANGED extractVars
    /\ UNCHANGED helperVars
    /\ UNCHANGED sourceVars

ComposeNext ==
    \/ \E document \in Documents : compose(document)
    \/ \E document \in Documents : compose_onto(document)

SpecCompose == ComposeInit /\ [][ComposeNext]_vars

(***************************************************************************)
(* composite_and_move(): the tree overrides the documents it is moved onto *)
(***************************************************************************)
MoveInit ==
    /\ target_tree \in {load_data(LayerFile(0), d) : d \in Documents}
    /\ composed = NoComposition
    /\ LoadIdle
    /\ ExtractIdle
    /\ HelperIdle
    /\ SourceIdle

\* composite_and_move(target, source), source loaded from the next file
move(document) ==
    /\ composed.n < MaxLayers
    /\ composed.err = "none"
    /\ \E source \in {load_data(LayerFile(composed.n + 1), document)} :
       \E r \in {composite_and_move(target_tree, source)} :
          /\ target_tree' = r.target
          /\ composed' = Composition("composite_and_move", r, target_tree, source)
    /\ UNCHANGED loadVars
    /\ UNCHANGED extractVars
    /\ UNCHANGED helperVars
    /\ UNCHANGED sourceVars

MoveNext == \E document \in Documents : move(document)

SpecMove == MoveInit /\ [][MoveNext]_vars

(***************************************************************************)
(* Layers composed onto an empty tree, as they are or as node_copy()       *)
(* returns them, and the tree they leave composed onto a base              *)
(***************************************************************************)
\* a document whose list holds a list
NestedListDocument == One("k", List(Seq1(StrList(Seq1("x")))))
LayerDocuments == Documents \cup {NestedListDocument}

\* the bases: the empty document and the documents holding a literal list
BaseDocuments == {Dict(<<>>)} \cup {One("k", v) : v \in LiteralLists}

NoLayers ==
    [op |-> "none", err |-> "none", n |-> 0, layers |-> <<>>, base |-> Dict(<<>>)]

LayersInit ==
    /\ target_tree = Dict(<<>>)
    /\ composed = NoLayers
    /\ LoadIdle
    /\ ExtractIdle
    /\ HelperIdle
    /\ SourceIdle

\* the call made and the layers composed so far, each as it was loaded
Layered(op, err, source, copied) ==
    [op |-> op, err |-> err, n |-> composed.n + 1,
     layers |-> Append(composed.layers, [source |-> source, copied |-> copied]),
     base |-> composed.base]

Layering ==
    /\ composed.n < MaxLayers
    /\ composed.err = "none"
    /\ composed.op # "resolve"

\* composite(target_tree, source), source loaded from the next layer's file
layer(document) ==
    /\ Layering
    /\ \E source \in {load_data(LayerFile(composed.n + 1), document)} :
       \E r \in {composite(target_tree, source)} :
          /\ target_tree' = r.target
          /\ composed' = Layered("layer", r.err, source, FALSE)
    /\ UNCHANGED loadVars
    /\ UNCHANGED extractVars
    /\ UNCHANGED helperVars
    /\ UNCHANGED sourceVars

\* composite(target_tree, node_copy(source)): an exception of node_copy()
\* leaves the target as it was
layer_copy(document) ==
    /\ Layering
    /\ \E source \in {load_data(LayerFile(composed.n + 1), document)} :
          IF node_copy_err(source) # "none"
          THEN /\ target_tree' = target_tree
               /\ composed' = Layered("layer_copy", node_copy_err(source), source, TRUE)
          ELSE \E r \in {composite(target_tree, node_copy(source))} :
                  /\ target_tree' = r.target
                  /\ composed' = Layered("layer_copy", r.err, source, TRUE)
    /\ UNCHANGED loadVars
    /\ UNCHANGED extractVars
    /\ UNCHANGED helperVars
    /\ UNCHANGED sourceVars

\* composite(base, target_tree): the tree that the layers left is composed
\* onto a freshly loaded base
resolve(document) ==
    /\ composed.op \in {"layer", "layer_copy"}
    /\ composed.err = "none"
    /\ \E base \in {load_data(LayerFile(0), document)} :
       \E r \in {composite(base, target_tree)} :
          /\ target_tree' = r.target
          /\ composed' = [composed EXCEPT !.op = "resolve", !.err = r.err, !.base = base]
    /\ UNCHANGED loadVars
    /\ UNCHANGED extractVars
    /\ UNCHANGED helperVars
    /\ UNCHANGED sourceVars

LayersNext ==
    \/ \E document \in LayerDocuments : layer(document)
    \/ \E document \in LayerDocuments : layer_copy(document)
    \/ \E document \in BaseDocuments : resolve(document)

SpecLayers == LayersInit /\ [][LayersNext]_vars

(***************************************************************************)
(* node_final_assertions(), node_sanitize() and node_validate(): the       *)
(* helpers that are applied to one tree                                    *)
(***************************************************************************)
RECURSIVE node_final_assertions(_), list_final_assertions(_), value_final_assertions(_),
          list_final_assertions_flat(_)

\* the descent of both loops: only into a dict or a list
value_final_assertions(value) ==
    IF value.kind = "dict" THEN node_final_assertions(value)
    ELSE IF value.kind = "list" THEN list_final_assertions(value.items)
    ELSE "none"

\* list_final_assertions() that skips the lists held by a list
list_final_assertions_flat(values) ==
    FirstErr([i \in 1..Len(values) |->
                  IF values[i].kind = "dict" THEN node_final_assertions(values[i])
                  ELSE "none"])

\* for value in values
list_final_assertions(values) ==
    FirstErr([i \in 1..Len(values) |-> value_final_assertions(values[i])])

\* for key, value in node_items(node): the first member that raises ends the walk
node_final_assertions(node) ==
    FirstErr([i \in 1..Len(node.entries) |->
                  IF node.entries[i].key \in Directives THEN "TRAILING_LIST_DIRECTIVE"
                  ELSE value_final_assertions(node.entries[i].value)])

\* sorted(key_list): str is ordered by code point; the key names of the trees
\* below, in that order
SortedNames == <<"", "(<)", "(=)", "(>)", "a", "b", "c">>
sorted(key_list) ==
    SelectSeq(SortedNames, LAMBDA key : \E i \in 1..Len(key_list) : key_list[i] = key)

\* key_list = [key for key, _ in node_items(node)]
key_list_of(node) == [i \in 1..Len(node.entries) |-> node.entries[i].key]

\* SanitizedDict(): the members in the order of key_list, no provenance member
SanitizedDict(key_list, values) ==
    [kind |-> "dict",
     entries |-> [i \in 1..Len(key_list) |-> Entry(key_list[i], values[i])],
     prov |-> NoProv]

RECURSIVE node_sanitize(_), node_sanitize_unsorted(_)

\* node_sanitize() that keeps the members in their insertion order
node_sanitize_unsorted(node) ==
    IF node.kind = "list"
    THEN List([i \in 1..Len(node.items) |-> node_sanitize(node.items[i])])
    ELSE IF node.kind = "dict"
    THEN SanitizedDict(key_list_of(node),
             [i \in 1..Len(node.entries) |-> node_sanitize(node.entries[i].value)])
    ELSE node

node_sanitize(node) ==
    IF node.kind = "list"
    THEN List([i \in 1..Len(node.items) |-> node_sanitize(node.items[i])])
    ELSE IF node.kind = "dict"
    THEN Let(sorted(key_list_of(node)), LAMBDA key_list :
             SanitizedDict(key_list,
                 [i \in 1..Len(key_list) |-> node_sanitize(DictGet(node, key_list[i]))]))
    ELSE node

\* ---- the trees that the helpers are applied to ----
Unsorted == Two("b", Str("s"), "a", Str("t"))

\* a scalar, a list, mappings, and mappings held by a list and by a list of a list
HelperValues ==
    { Str("s"),
      StrList(Seq2("y", "x")),
      Unsorted,
      One("(<)", StrList(Seq1("x"))),
      List(Seq1(One("(>)", StrList(Seq1("x"))))),
      List(Seq1(List(Seq1(One("(=)", StrList(Seq1("x"))))))),
      List(Seq1(List(Seq2(Unsorted, Str("s"))))) }

HelperKeys == {"", "(=)", "a", "b"}

HelperTrees ==
    {Dict(<<>>)}
    \cup {One(k, v) : k \in HelperKeys, v \in HelperValues}
    \cup {Two(k1, v1, k2, v2) : <<k1, k2>> \in {kk \in HelperKeys \X HelperKeys : kk[1] # kk[2]},
                                 <<v1, v2>> \in HelperValues \X HelperValues}

\* the values that node_get() is asked for: strings, among them the four
\* that stand for a boolean, a boolean, None, a list and a mapping
GetStrings == {"True", "true", "False", "false", "TRUE", "yes", "0", "", " z "}
GetValues ==
    {Str(s) : s \in GetStrings}
    \cup {Bool(TRUE), Bool(FALSE), PyNone, StrList(Seq1("x")), One("c", Str("s"))}
GetTrees == {One("a", v) : v \in GetValues}

ExpectedTypes == {"str", "bool", "list", "dict", "Mapping"}

HelperDocuments == HelperTrees \cup GetTrees

\* the valid_keys that callers pass
ValidKeySets == {{}, {"a"}, {"a", "b"}, {"a", "b", "(=)"}, {"", "a"}}

\* a tree built by the program, or one loaded from a file
HelperInit ==
    /\ helper_tree \in HelperDocuments \cup {load_data(LayerFile(0), d) : d \in HelperDocuments}
    /\ helper_call = NoCall
    /\ LoadIdle
    /\ ExtractIdle
    /\ ComposeIdle
    /\ SourceIdle

Call(op, err, valid_keys) ==
    [op |-> op, err |-> err, before |-> helper_tree, valid_keys |-> valid_keys]

\* The calls that assign nothing to the tree are taken on a tree as it was
\* built, loaded or sanitized: after another such call they would lead to
\* the same states.
Untouched == helper_call.op \in {"none", "node_sanitize"}

\* node_final_assertions(node): raises or returns, assigns nothing
final_assertions ==
    /\ Untouched
    /\ helper_call' = Call("node_final_assertions", node_final_assertions(helper_tree), {})
    /\ UNCHANGED helper_tree
    /\ UNCHANGED loadVars
    /\ UNCHANGED extractVars
    /\ UNCHANGED composeVars
    /\ UNCHANGED sourceVars

\* node = node_sanitize(node)
sanitize ==
    /\ helper_tree' = node_sanitize(helper_tree)
    /\ helper_call' = Call("node_sanitize", "none", {})
    /\ UNCHANGED loadVars
    /\ UNCHANGED extractVars
    /\ UNCHANGED composeVars
    /\ UNCHANGED sourceVars

\* node_validate(node, valid_keys): raises or returns, assigns nothing to node
validate(valid_keys) ==
    /\ Untouched
    /\ helper_call' = Call("node_validate", node_validate(helper_tree, valid_keys), valid_keys)
    /\ UNCHANGED helper_tree
    /\ UNCHANGED loadVars
    /\ UNCHANGED extractVars
    /\ UNCHANGED composeVars
    /\ UNCHANGED sourceVars

GetCall(r, expected_type, key, default_value, allow_none) ==
    [op |-> "node_get", err |-> r.err, value |-> r.value, before |-> helper_tree,
     expected_type |-> expected_type, key |-> key, default_value |-> default_value,
     allow_none |-> allow_none]

\* node_get(node, expected_type, key, default_value=..., allow_none=...)
get(expected_type, key, default_value, allow_none) ==
    /\ Untouched
    /\ \E r \in {node_get(helper_tree, expected_type, key, default_value, allow_none)} :
           helper_call' = GetCall(r, expected_type, key, default_value, allow_none)
    /\ UNCHANGED helper_tree
    /\ UNCHANGED loadVars
    /\ UNCHANGED extractVars
    /\ UNCHANGED composeVars
    /\ UNCHANGED sourceVars

\* copy = node_copy(node): what the call raises and what it builds
copy ==
    /\ Untouched
    /\ helper_call' = [op |-> "node_copy", err |-> node_copy_err(helper_tree),
                       value |-> node_copy(helper_tree), before |-> helper_tree]
    /\ UNCHANGED helper_tree
    /\ UNCHANGED loadVars
    /\ UNCHANGED extractVars
    /\ UNCHANGED composeVars
    /\ UNCHANGED sourceVars

HelperNext ==
    \/ final_assertions
    \/ sanitize
    \/ copy
    \/ \E valid_keys \in ValidKeySets : validate(valid_keys)
    \/ \E expected_type \in ExpectedTypes, key \in {"a", "b"},
          default_value \in {Sentinel, PyNone}, allow_none \in BOOLEAN :
           get(expected_type, key, default_value, allow_none)

SpecHelper == HelperInit /\ [][HelperNext]_vars

(***************************************************************************)
(* Source (buildstream/source.py): the mirror fallback, tracking, saving   *)
(* a ref and the cached consistency                                        *)
(***************************************************************************)
MaxUris == 2

Refs == {"r1", "r2"}

\* What a callback does for one URI: it returns retval, or raises
Returns(retval) == [raises |-> "none", retval |-> retval]
Raises(error) == [raises |-> error, retval |-> NoRef]

\* the URIs of an alias, named by their position in the project's list
Uris(n) == [i \in 1..n |-> i]

\* reversed(uri_list)
Reversed(uri_list) == [i \in 1..Len(uri_list) |-> uri_list[Len(uri_list) + 1 - i]]

\* errors = [] : nothing is ever appended to it
errors == <<>>

\* the detail of the final SourceError
Detail(collected) == IF collected # <<>> THEN collected ELSE NoRef

\* the position in uri_list of the first call that does not raise
\* SourceError, 0 when every call raises it
FirstSettled(uri_list, callback) ==
    IF \E i \in 1..Len(uri_list) : callback[uri_list[i]].raises # "SourceError"
    THEN CHOOSE i \in 1..Len(uri_list) :
             /\ callback[uri_list[i]].raises # "SourceError"
             /\ \A j \in 1..(i - 1) : callback[uri_list[j]].raises = "SourceError"
    ELSE 0

Iterated(err, retval, called, detail) ==
    [err |-> err, retval |-> retval, called |-> called, detail |-> detail]

\* __iterate_uris() that goes on to the last URI and returns its result
iterate_uris_to_last(uri_list, callback) ==
    IF uri_list = <<>> \/ callback[uri_list[Len(uri_list)]].raises # "none"
    THEN Iterated("SourceError", NoRef, uri_list, Detail(errors))
    ELSE Iterated("none", callback[uri_list[Len(uri_list)]].retval, uri_list, NoRef)

\* __iterate_uris(uri_list, callback, task_description): callback gives for
\* every URI what the call with alias_override=uri does; called lists the
\* URIs the callback was called with, in the order of the calls
iterate_uris(uri_list, callback) ==
    Let(FirstSettled(uri_list, callback), LAMBDA first :
        IF first = 0
        THEN Iterated("SourceError", NoRef, uri_list, Detail(errors))
        ELSE IF callback[uri_list[first]].raises = "none"
        THEN Iterated("none", callback[uri_list[first]].retval,
                      SubSeq(uri_list, 1, first), NoRef)
        ELSE Iterated(callback[uri_list[first]].raises, NoRef,
                      SubSeq(uri_list, 1, first), NoRef))

\* what get_source_downloaders(), downloader.fetch() and downloader.track()
\* do for a URI
DownloaderOutcomes == {Returns("downloader"), Raises("SourceError")}
FetchOutcomes == {Returns(NoRef), Raises("SourceError"), Raises("OSError")}
TrackOutcomes == {Returns(ref) : ref \in Refs \cup {NoRef}} \cup {Raises("SourceError")}

\* for every number of URIs, what the two callbacks do for each of them
Worlds(outcomes) ==
    UNION {[1..n -> DownloaderOutcomes] \X [1..n -> outcomes] : n \in 0..MaxUris}

SourceInit ==
    /\ source_state \in
           {NewSource(ref, is_toplevel, ref_storage) :
                ref \in {NoRef, "r1"}, is_toplevel \in BOOLEAN,
                ref_storage \in {ProjectRefStorage_INLINE, ProjectRefStorage_PROJECT_REFS}}
    /\ source_call = NoSourceCall
    /\ LoadIdle
    /\ ExtractIdle
    /\ ComposeIdle
    /\ HelperIdle

\* _fetch() and _track() assign nothing to the source: they are taken after
\* a call that may have changed it
Settled == source_call.op \notin {"_fetch", "_track"}

\* _fetch(): the downloaders are obtained through the fallback, then every
\* downloader fetches through the fallback; the model's source is its own
\* single downloader
fetch(getting, fetching) ==
    /\ Settled
    /\ \E d \in {iterate_uris(Uris(Len(getting)), getting)} :
       \E f \in {IF d.err # "none" THEN d ELSE iterate_uris(Uris(Len(fetching)), fetching)} :
           source_call' = [op |-> "_fetch", err |-> f.err, before |-> source_state,
                           uri_list |-> Uris(Len(fetching)),
                           callback |-> IF d.err # "none" THEN getting ELSE fetching,
                           iterated |-> f]
    /\ UNCHANGED source_state
    /\ UNCHANGED loadVars
    /\ UNCHANGED extractVars
    /\ UNCHANGED composeVars
    /\ UNCHANGED helperVars

\* _track() that returns what the tracking resolved, None included
track_result_unchecked(new_ref, current_ref) == new_ref

\* lines 743-745: no tracking, keep current ref
track_result(new_ref, current_ref) == IF new_ref = NoRef THEN current_ref ELSE new_ref

\* _track(), with _mirrored_track(): both fallbacks go through the URIs in
\* reversed order, and only the first downloader tracks
track(getting, tracking) ==
    /\ Settled
    /\ \E d \in {iterate_uris(Reversed(Uris(Len(getting))), getting)} :
       \E t \in {IF d.err # "none" THEN d
                 ELSE iterate_uris(Reversed(Uris(Len(tracking))), tracking)} :
       \E new_ref \in {track_result(t.retval, source_state.ref)} :
           source_call' = [op |-> "_track", err |-> t.err, before |-> source_state,
                           uri_list |-> Reversed(Uris(Len(tracking))),
                           callback |-> IF d.err # "none" THEN getting ELSE tracking,
                           iterated |-> t,
                           retval |-> IF t.err # "none" THEN NoRef ELSE new_ref,
                           info |-> t.err = "none" /\ source_state.ref # new_ref]
    /\ UNCHANGED source_state
    /\ UNCHANGED loadVars
    /\ UNCHANGED extractVars
    /\ UNCHANGED composeVars
    /\ UNCHANGED helperVars

\* every project persists to project.refs
save_target_project_refs(is_toplevel, ref_storage) == "project.refs"

\* Steps 1 and 3 of _save_ref(): the node that is given the ref and the file
\* that is written
save_target(is_toplevel, ref_storage) ==
    IF ref_storage = ProjectRefStorage_PROJECT_REFS THEN "project.refs"
    ELSE IF is_toplevel THEN "element"
    ELSE "nowhere"

\* set_ref(ref, node): the ref is set on the source and on the node
set_ref(state, ref, node) ==
    IF node = "project.refs" THEN [state EXCEPT !.ref = ref, !.refs_node = ref]
    ELSE IF node = "element" THEN [state EXCEPT !.ref = ref, !.element_node = ref]
    ELSE [state EXCEPT !.ref = ref]

\* refs.save() and _yaml.dump(provenance.toplevel, fullname): the file
\* holds what the node held
written(state, file) ==
    IF file = "project.refs" THEN [state EXCEPT !.refs_file = state.refs_node]
    ELSE [state EXCEPT !.element_file = state.element_node]

\* _save_ref(new_ref); oserror: writing the file raises OSError.  log lists
\* what the call did, in order.
save_ref(new_ref, oserror) ==
    /\ \E node \in {save_target(source_state.is_toplevel, source_state.ref_storage)} :
       \E changed \in {source_state.ref # new_ref} :
       \E in_memory \in {set_ref(source_state, new_ref, node)} :
          IF node = "nowhere"
          THEN /\ source_state' = in_memory
               /\ source_call' = [op |-> "_save_ref", err |-> "none", before |-> source_state,
                                  new_ref |-> new_ref, oserror |-> oserror,
                                  retval |-> changed, log |-> <<"set_ref", "warn">>]
          ELSE IF oserror
          THEN /\ source_state' = in_memory
               /\ source_call' = [op |-> "_save_ref", err |-> "SourceError",
                                  before |-> source_state,
                                  new_ref |-> new_ref, oserror |-> oserror,
                                  retval |-> FALSE, log |-> <<"set_ref", "write " \o node>>]
          ELSE /\ source_state' = written(in_memory, node)
               /\ source_call' = [op |-> "_save_ref", err |-> "none", before |-> source_state,
                                  new_ref |-> new_ref, oserror |-> oserror,
                                  retval |-> changed, log |-> <<"set_ref", "write " \o node>>]
    /\ UNCHANGED loadVars
    /\ UNCHANGED extractVars
    /\ UNCHANGED composeVars
    /\ UNCHANGED helperVars

\* the plugin is asked whatever is cached
stale_always(consistency) == TRUE

\* line 501: if self.__consistency < Consistency.CACHED
stale(consistency) == consistency < Consistency_CACHED

\* _update_state(); answer: what get_consistency() returns when it is asked
update_state(answer) ==
    /\ source_state' = IF stale(source_state.consistency)
                       THEN [source_state EXCEPT !.consistency = answer]
                       ELSE source_state
    /\ source_call' = [op |-> "_update_state", err |-> "none", before |-> source_state,
                       answer |-> answer, asked |-> stale(source_state.consistency)]
    /\ UNCHANGED loadVars
    /\ UNCHANGED extractVars
    /\ UNCHANGED composeVars
    /\ UNCHANGED helperVars

SourceNext ==
    \/ \E world \in Worlds(FetchOutcomes) : fetch(world[1], world[2])
    \/ \E world \in Worlds(TrackOutcomes) : track(world[1], world[2])
    \/ \E new_ref \in Refs, oserror \in BOOLEAN : save_ref(new_ref, oserror)
    \/ \E answer \in Consistency_INCONSISTENT..Consistency_CACHED : update_state(answer)

SpecSource == SourceInit /\ [][SourceNext]_vars

(***************************************************************************)
(* Properties of the extraction                                            *)
(***************************************************************************)
DependencyFields == <<Symbol_BUILD_DEPENDS, Symbol_RUNTIME_DEPENDS, Symbol_DEPENDS>>
DependencyKeys == {DependencyFields[i] : i \in 1..3}

\* the entries a field declares, in their declared order
Declared(node, key) ==
    IF HasKey(node, key) /\ DictGet(node, key).kind = "list"
    THEN [i \in 1..Len(DictGet(node, key).items) |->
              [field |-> key, entry |-> DictGet(node, key).items[i]]]
    ELSE <<>>

DeclaredInOrder(node) ==
    Declared(node, Symbol_BUILD_DEPENDS) \o Declared(node, Symbol_RUNTIME_DEPENDS)
        \o Declared(node, Symbol_DEPENDS)

\* the kind the claim gives an entry: None stands for unrestricted
ClaimedKind(d) ==
    CASE d.field = Symbol_BUILD_DEPENDS -> Str("build")
      [] d.field = Symbol_RUNTIME_DEPENDS -> Str("runtime")
      [] OTHER -> IF d.entry.kind = "dict" /\ HasKey(d.entry, "type")
                     /\ DictGet(d.entry, "type") # Str("all")
                  THEN DictGet(d.entry, "type")
                  ELSE PyNone

\* the name an entry declares: the bare string, or the trimmed filename
ClaimedName(d) ==
    IF d.entry.kind = "dict"
    THEN Str(Strip(DictGet(d.entry, "filename").val))
    ELSE d.entry

\* C4: a successful extraction returns the build-depends, then the
\* runtime-depends, then the depends entries, each field in its declared
\* order and each entry with its field's kind; afterwards none of the three
\* keys is in the tree and the other members of the tree are as before.
C4_ExtractionOrderAndRemoval ==
    (extraction.done /\ extraction.err = "none") =>
        LET declared == DeclaredInOrder(extraction.before)
        IN  /\ Len(extraction.deps) = Len(declared)
            /\ \A i \in 1..Len(declared) :
                   /\ extraction.deps[i].name = ClaimedName(declared[i])
                   /\ extraction.deps[i].dep_type = ClaimedKind(declared[i])
            /\ \A k \in DependencyKeys : ~HasKey(tree, k)
            /\ tree.entries = SelectSeq(extraction.before.entries,
                                        LAMBDA e : e.key \notin DependencyKeys)

\* C4 witness: a successful extraction from a tree that declares all three
\* fields, depends (declared first in the tree) holding two entries of
\* which one is structured with type all.
C4_Witness ==
    /\ extraction.done /\ extraction.err = "none"
    /\ \A k \in DependencyKeys : Len(Declared(extraction.before, k)) >= 1
    /\ Len(Declared(extraction.before, Symbol_DEPENDS)) = 2
    /\ \E i \in 1..2 :
          LET e == Declared(extraction.before, Symbol_DEPENDS)[i].entry
          IN  e.kind = "dict" /\ HasKey(e, "type") /\ DictGet(e, "type") = Str("all")
    /\ extraction.deps[1].dep_type = Str("build")
    /\ extraction.deps[Len(extraction.deps)].dep_type \in {PyNone, Str("runtime")}

\* the entries the claim calls malformed
BadType(d) ==
    /\ d.field = Symbol_DEPENDS
    /\ d.entry.kind = "dict" /\ HasKey(d.entry, "type")
    /\ DictGet(d.entry, "type") \notin {Str("build"), Str("runtime"), Str("all")}
NeitherStringNorMapping(d) == d.entry.kind \notin {"str", "dict"}
NoFilename(d) == d.entry.kind = "dict" /\ ~HasKey(d.entry, "filename")

Malformed(d) == BadType(d) \/ NeitherStringNorMapping(d) \/ NoFilename(d)

\* C5: extraction fails with InvalidDataError when a depends entry
\* declares a type other than build, runtime or all, when an entry of any
\* field is neither a string nor a mapping, and when a structured entry
\* has no filename.
C5_MalformedEntryIsInvalidData ==
    LET declared == DeclaredInOrder(extraction.before)
    IN  (extraction.done /\ \E i \in 1..Len(declared) : Malformed(declared[i]))
            => extraction.err = "INVALID_DATA"

\* C5 witness: each of the three malformations, as the only defect of a
\* tree, has made an extraction fail; here the one with a bad type, after
\* a well-formed build-depends field had been extracted and removed.
C5_Witness ==
    LET declared == DeclaredInOrder(extraction.before)
    IN  /\ extraction.done /\ extraction.err = "INVALID_DATA"
        /\ Len(Declared(extraction.before, Symbol_BUILD_DEPENDS)) >= 1
        /\ ~HasKey(tree, Symbol_BUILD_DEPENDS)
        /\ HasKey(tree, Symbol_DEPENDS)
        /\ \E i \in 1..Len(declared) :
              /\ BadType(declared[i])
              /\ \A j \in 1..Len(declared) : j # i => ~Malformed(declared[j])
              /\ \A j \in 1..Len(declared) :
                    declared[j].entry.kind = "dict" =>
                        ~HasKey(declared[j].entry, "strict")

(***************************************************************************)
(* Properties of depends()                                                 *)
(***************************************************************************)
\* The dependency relation declared by the descriptors, and its transitive
\* closure, defined without reference to the caches.
DirectDeps(x) == {get_element_for_dep(deps[x][i]) : i \in 1..Len(deps[x])}

RECURSIVE ReachWithin(_, _)
ReachWithin(x, n) ==
    IF n = 0 THEN {}
    ELSE DirectDeps(x) \cup UNION {ReachWithin(y, n - 1) : y \in DirectDeps(x)}

Reach(x) == ReachWithin(x, Cardinality(Elements))

Acyclic == \A x \in Elements : x \notin Reach(x)

Queried == query.self # "none"

\* C1: in an acyclic graph every depends(self, other) query, whatever
\* queries came before it, returns without error and answers true exactly
\* when other is reachable from self through one or more descriptors.
C1_DependsIsReachability ==
    (Queried /\ Acyclic) =>
        /\ query.err = "none"
        /\ query.result = (query.other \in Reach(query.self))

\* C1 witness: a query answered true for an element that is reached only
\* transitively, through the cache of a direct dependency.
C1_Witness ==
    /\ Queried /\ Acyclic
    /\ query.result
    /\ query.other \notin DirectDeps(query.self)
    /\ \E e \in DirectDeps(query.self) : query.other \in dep_cache[e].keys

\* C2 (as claimed): a query on an element that lies on a dependency cycle
\* fails with CircularDependencyError.
C2_CycleRaisesCircularDependencyError ==
    (Queried /\ query.self \in Reach(query.self)) =>
        query.err = "CircularDependencyError"

\* C3 (as claimed): the depends-cache of every element, elements without
\* dependencies included, is computed at most once, by the first query that
\* reaches it; stated for acyclic graphs.
C3_CacheComputedOnce ==
    Acyclic => \A e \in Elements : computed[e] <= 1

(***************************************************************************)
(* Properties of the composition                                           *)
(***************************************************************************)
\* the value at a path of keys, None where there is none
RECURSIVE ValueAt(_, _)
ValueAt(node, path) ==
    IF path = <<>> THEN node
    ELSE IF node.kind = "dict" /\ HasKey(node, Head(path))
    THEN ValueAt(DictGet(node, Head(path)), Tail(path))
    ELSE PyNone

\* the key paths of the documents
KeyPaths == {Seq1("k"), Seq2("m", "k")}

\* path is the only path of keys of the node: no other member of the
\* source is composed before or after it
RECURSIVE OnlyPath(_, _)
OnlyPath(node, path) ==
    \/ path = <<>>
    \/ /\ node.kind = "dict"
       /\ Len(node.entries) = 1
       /\ node.entries[1].key = Head(path)
       /\ OnlyPath(node.entries[1].value, Tail(path))

KeysOf(v) == {v.entries[i].key : i \in 1..Len(v.entries)}
IsAbsent(v) == v = PyNone
IsScalar(v) == v.kind \in {"str", "bool"}
IsLiteralList(v) == v.kind = "list"
IsDirectiveMapping(v) ==
    v.kind = "dict" /\ KeysOf(v) # {} /\ KeysOf(v) \subseteq Directives
IsOrdinaryMapping(v) == v.kind = "dict" /\ KeysOf(v) \cap Directives = {}

\* a composite() call has been made; what it was given and what it left
Composing == composed.op # "none"
TargetBefore(path) == ValueAt(composed.before, path)
SourceValue(path) == ValueAt(composed.source, path)
TargetAfter(path) == ValueAt(target_tree, path)

\* The composition of the member at path went through with the outcome:
\* it does when no other member of the source is composed, and whenever no
\* member of the source raises.
Composes(path, outcome) ==
    /\ OnlyPath(composed.source, path) => composed.err = "none"
    /\ composed.err = "none" => outcome

\* the list under a directive of a directive mapping, empty when absent
DirectiveList(v, directive) ==
    IF HasKey(v, directive) THEN DictGet(v, directive).items ELSE <<>>

C7_ListOverwritesAllButMappings ==
    Composing => \A path \in KeyPaths :
        (/\ OnlyPath(composed.source, path)
         /\ IsLiteralList(SourceValue(path))
         /\ \/ IsAbsent(TargetBefore(path))
            \/ IsScalar(TargetBefore(path))
            \/ IsLiteralList(TargetBefore(path))
            \/ IsDirectiveMapping(TargetBefore(path))
            \/ IsOrdinaryMapping(TargetBefore(path)))
        => IF IsOrdinaryMapping(TargetBefore(path))
           THEN composed.err # "none"
           ELSE composed.err = "none" /\ TargetAfter(path) = SourceValue(path)

\* C7, amended: a literal list of the source replaces nothing, a list of
\* any content and a mapping of directives; a scalar and a mapping that
\* holds anything but directives make the composition fail with
\* INVALID_DATA and keep their place in the target.
C7_ListOverwritesListsAndDirectives ==
    Composing => \A path \in KeyPaths :
        IsLiteralList(SourceValue(path)) =>
            IF \/ IsAbsent(TargetBefore(path))
               \/ IsLiteralList(TargetBefore(path))
               \/ IsDirectiveMapping(TargetBefore(path))
            THEN /\ composed.err = "none" => TargetAfter(path) = SourceValue(path)
                 /\ OnlyPath(composed.source, path) => composed.err = "none"
            ELSE /\ composed.err # "none"
                 /\ OnlyPath(composed.source, path) => composed.err = "INVALID_DATA"
                 /\ TargetAfter(path) = TargetBefore(path)

\* a list took the place of a mapping of directives
C7_Witness ==
    /\ Composing
    /\ IsLiteralList(SourceValue(Seq1("k")))
    /\ IsDirectiveMapping(TargetBefore(Seq1("k")))
    /\ composed.err = "none"
    /\ TargetAfter(Seq1("k")) = StrList(Seq2("x", "y"))

\* the list P ++ (O or T) ++ A of the directives of source resolved on the
\* list of target
Resolved(target_list, source_directives) ==
    DirectiveList(source_directives, "(<)")
    \o (IF HasKey(source_directives, "(=)")
        THEN DirectiveList(source_directives, "(=)")
        ELSE target_list.items)
    \o DirectiveList(source_directives, "(>)")

\* C8: directives composed onto a literal list T leave the literal list
\* P ++ (O if there is an overwrite, else T) ++ A, the elements of P and A
\* in the order of the source.
C8_DirectivesResolveOnLiteralList ==
    Composing => \A path \in KeyPaths :
        (IsLiteralList(TargetBefore(path)) /\ IsDirectiveMapping(SourceValue(path)))
        => Composes(path,
               TargetAfter(path) = List(Resolved(TargetBefore(path), SourceValue(path))))

\* {append: [b]} composed onto what {prepend: [a]} made of [x, y]
C8_Witness ==
    /\ composed.op = "compose"
    /\ composed.n = 2
    /\ TargetBefore(Seq1("k")) = StrList(<<"a", "x", "y">>)
    /\ composed.before.prov.members["k"].elements[1].file = LayerFile(1)
    /\ IsDirectiveMapping(SourceValue(Seq1("k")))
    /\ SourceValue(Seq1("k")).entries = Seq1(Entry("(>)", StrList(Seq1("b"))))
    /\ TargetAfter(Seq1("k")) = StrList(<<"a", "x", "y", "b">>)

\* C9: directives composed onto directives.  With an overwrite in the
\* source the target is left with the source's overwrite, prepend and
\* append only; without one the target keeps its overwrite, the source's
\* prepend comes before the target's and the source's append after the
\* target's.  The target's value stays a mapping of directives.
C9_DirectivesAccumulate ==
    Composing => \A path \in KeyPaths :
        (IsDirectiveMapping(TargetBefore(path)) /\ IsDirectiveMapping(SourceValue(path)))
        => Composes(path,
           /\ IsDirectiveMapping(TargetAfter(path))
           /\ \A d \in Directives : HasKey(TargetAfter(path), d) =>
                  IsLiteralList(DictGet(TargetAfter(path), d))
           /\ IF HasKey(SourceValue(path), "(=)")
              THEN /\ KeysOf(TargetAfter(path)) = KeysOf(SourceValue(path))
                   /\ \A d \in Directives :
                          DirectiveList(TargetAfter(path), d)
                              = DirectiveList(SourceValue(path), d)
              ELSE /\ KeysOf(TargetAfter(path))
                          = KeysOf(TargetBefore(path)) \cup KeysOf(SourceValue(path))
                   /\ DirectiveList(TargetAfter(path), "(=)")
                          = DirectiveList(TargetBefore(path), "(=)")
                   /\ DirectiveList(TargetAfter(path), "(<)")
                          = DirectiveList(SourceValue(path), "(<)")
                            \o DirectiveList(TargetBefore(path), "(<)")
                   /\ DirectiveList(TargetAfter(path), "(>)")
                          = DirectiveList(TargetBefore(path), "(>)")
                            \o DirectiveList(SourceValue(path), "(>)"))

\* an overwrite discarded a prepend and an append accumulated from two
\* layers
C9_Witness ==
    /\ composed.op = "compose"
    /\ composed.n = 2
    /\ IsDirectiveMapping(TargetBefore(Seq1("k")))
    /\ KeysOf(TargetBefore(Seq1("k"))) = {"(<)", "(>)"}
    /\ TargetBefore(Seq1("k")).prov.members["(>)"].file = LayerFile(1)
    /\ IsDirectiveMapping(SourceValue(Seq1("k")))
    /\ KeysOf(SourceValue(Seq1("k"))) = {"(=)"}
    /\ TargetAfter(Seq1("k")).entries = Seq1(Entry("(=)", StrList(Seq1("c"))))

\* C10: directives composed onto a key the target does not hold are copied
\* as they are, provenance included, and stay a mapping of directives; when
\* the tree that holds them is then composed onto a tree with a literal
\* list at the key, they resolve on that list.
C10_DirectivesCopiedUnresolved ==
    Composing => \A path \in KeyPaths :
        /\ (IsAbsent(TargetBefore(path)) /\ IsDirectiveMapping(SourceValue(path)))
           => Composes(path,
                  /\ TargetAfter(path) = SourceValue(path)
                  /\ IsDirectiveMapping(TargetAfter(path)))
        /\ (/\ composed.op = "compose_onto"
            /\ IsDirectiveMapping(SourceValue(path))
            /\ IsLiteralList(TargetBefore(path)))
           => Composes(path,
                  /\ IsLiteralList(TargetAfter(path))
                  /\ TargetAfter(path).items
                         = Resolved(TargetBefore(path), SourceValue(path)))

\* the directives copied from the first layer into an empty tree resolved
\* on the list [x, y] of the tree they were composed onto
C10_Witness ==
    /\ composed.op = "compose_onto"
    /\ composed.n = 2
    /\ IsDirectiveMapping(SourceValue(Seq1("k")))
    /\ OnlyPath(composed.source, Seq1("k"))
    /\ KeysOf(SourceValue(Seq1("k"))) = {"(<)", "(>)"}
    /\ SourceValue(Seq1("k")).prov.file = LayerFile(1)
    /\ TargetBefore(Seq1("k")) = StrList(Seq2("x", "y"))
    /\ TargetAfter(Seq1("k")) = StrList(<<"a", "d", "x", "y", "b", "e">>)

\* the key paths of a tree; a mapping of directives is a value, not a
\* mapping with members of its own
RECURSIVE PathsOf(_)
PathsOf(node) ==
    IF node.kind # "dict" \/ IsDirectiveMapping(node) THEN {}
    ELSE UNION { {Seq1(node.entries[i].key)}
                 \cup {Seq1(node.entries[i].key) \o q : q \in PathsOf(node.entries[i].value)}
                 : i \in 1..Len(node.entries) }

\* the member record of the key at the end of the path, in the provenance
\* of the mapping that holds it
ParentOf(path) == SubSeq(path, 1, Len(path) - 1)
NoRecord == [absent |-> TRUE]
RecordAt(node, path) ==
    Let(ValueAt(node, ParentOf(path)), LAMBDA parent :
        IF parent.kind # "dict" THEN NoRecord
        ELSE IF parent.prov.none THEN NoRecord
        ELSE IF path[Len(path)] \notin DOMAIN parent.prov.members THEN NoRecord
        ELSE parent.prov.members[path[Len(path)]])

\* C11: composition merges.  A key of the target that the source does not
\* hold at the same path keeps its value and its member record, whether the
\* composition raises or not; a key that holds an ordinary mapping in the
\* source and nothing in the target becomes, when the composition raises
\* nowhere, a mapping with the source's keys, the one that composing the
\* source's mapping into an empty mapping gives.
C11_ComposeMergesRecursively ==
    Composing =>
        /\ \A path \in PathsOf(composed.before) :
               IsAbsent(SourceValue(path)) =>
                   /\ TargetAfter(path) = TargetBefore(path)
                   /\ RecordAt(target_tree, path) = RecordAt(composed.before, path)
        /\ \A path \in PathsOf(composed.source) :
               (IsOrdinaryMapping(SourceValue(path)) /\ IsAbsent(TargetBefore(path)))
               => (composed.err = "none" =>
                      /\ IsOrdinaryMapping(TargetAfter(path))
                      /\ KeysOf(TargetAfter(path)) = KeysOf(SourceValue(path))
                      /\ TargetAfter(path)
                             = composite_dict(new_dict(SourceValue(path)),
                                              SourceValue(path), path).target)

\* the mapping "m" received "j" from the source and kept its own "k"; the
\* mapping "m" itself was created by the layer before
C11_Witness ==
    /\ composed.op = "compose"
    /\ composed.n = 2
    /\ composed.err = "none"
    /\ composed.before.entries = Seq1(Entry("m", TargetBefore(Seq1("m"))))
    /\ RecordAt(composed.before, Seq1("m")) # NoRecord
    /\ RecordAt(composed.before, Seq1("m")).file = LayerFile(1)
    /\ IsLiteralList(TargetBefore(Seq2("m", "k")))
    /\ SourceValue(Seq1("m")) = ValueAt(load_data(LayerFile(2), SiblingDocument), Seq1("m"))
    /\ TargetAfter(Seq2("m", "k")) = TargetBefore(Seq2("m", "k"))
    /\ TargetAfter(Seq2("m", "j")) = Str("t")

\* lines 775-776: both are strings, or the source's value is an instance
\* of the type of the target's
CompatibleScalars(source_value, target_value) ==
    /\ IsScalar(source_value)
    /\ IsScalar(target_value)
    /\ source_value.kind = target_value.kind

\* C12 as the specification states it: a scalar of the source fails on a
\* mapping and on a sequence and replaces nothing and every scalar.
C12_ScalarOverwritesEveryScalar ==
    Composing => \A path \in KeyPaths :
        (OnlyPath(composed.source, path) /\ IsScalar(SourceValue(path)))
        => IF IsAbsent(TargetBefore(path)) \/ IsScalar(TargetBefore(path))
           THEN composed.err = "none" /\ TargetAfter(path) = SourceValue(path)
           ELSE composed.err # "none"

\* C12, amended: a scalar of the source replaces nothing and a scalar of
\* the same kind; on a mapping, a sequence and a scalar of another kind (a
\* boolean on a string, a string on a boolean) the composition fails with
\* ILLEGAL_COMPOSITE and the target keeps its value.
C12_ScalarOverwritesCompatibleScalar ==
    Composing => \A path \in KeyPaths :
        IsScalar(SourceValue(path)) =>
            IF \/ IsAbsent(TargetBefore(path))
               \/ CompatibleScalars(SourceValue(path), TargetBefore(path))
            THEN Composes(path, TargetAfter(path) = SourceValue(path))
            ELSE /\ composed.err # "none"
                 /\ OnlyPath(composed.source, path) => composed.err = "ILLEGAL_COMPOSITE"
                 /\ TargetAfter(path) = TargetBefore(path)

\* a boolean met a string
C12_Witness ==
    /\ Composing
    /\ SourceValue(Seq1("k")) = Bool(TRUE)
    /\ TargetBefore(Seq1("k")) = Str("s")
    /\ composed.err = "ILLEGAL_COMPOSITE"
    /\ TargetAfter(Seq1("k")) = Str("s")

\* the file, line and column of a provenance record
Position(record) ==
    IF record = NoRecord THEN <<"", 0, 0>> ELSE <<record.file, record.line, record.col>>

\* the member record of a directive inside a mapping of directives
DirectiveRecord(v, directive) ==
    IF v.prov.none THEN NoRecord
    ELSE IF directive \notin DOMAIN v.prov.members THEN NoRecord
    ELSE v.prov.members[directive]

HasOverwrite(v) == IsDirectiveMapping(v) /\ HasKey(v, "(=)")

\* the source's value won at the path: a scalar, a literal list, an
\* overwrite directive, or any value at a key the target did not hold
SourceWon(path) ==
    \/ IsScalar(SourceValue(path))
    \/ IsLiteralList(SourceValue(path))
    \/ HasOverwrite(SourceValue(path)) /\ ~IsAbsent(TargetBefore(path))
    \/ ~IsAbsent(SourceValue(path)) /\ IsAbsent(TargetBefore(path))

\* C13 as the specification states it: wherever the source's value won, the
\* target's member record of the key has the file, line and column of the
\* source's member record of that key.
C13_WinnerRecordIsSourceKeyRecord ==
    (Composing /\ composed.err = "none") => \A path \in KeyPaths :
        SourceWon(path) =>
            Position(RecordAt(target_tree, path)) = Position(RecordAt(composed.source, path))

\* C13, amended: after a successful composition the target's member record
\* of a key has the position of the source's member record of that key
\* where a scalar or a literal list won and where the key is new in the
\* target.  An overwrite directive resolved on a literal list leaves the
\* position of the source's overwrite member in the target's record of the
\* key; an overwrite directive composed onto a mapping of directives leaves
\* it in the record of the target's overwrite member and keeps the target's
\* record of the key.
C13_WinnerRecordIsProducingRecord ==
    (Composing /\ composed.err = "none") => \A path \in KeyPaths :
        /\ (\/ IsScalar(SourceValue(path))
            \/ IsLiteralList(SourceValue(path))
            \/ ~IsAbsent(SourceValue(path)) /\ IsAbsent(TargetBefore(path)))
           => /\ RecordAt(target_tree, path) # NoRecord
              /\ Position(RecordAt(target_tree, path))
                     = Position(RecordAt(composed.source, path))
        /\ (HasOverwrite(SourceValue(path)) /\ IsLiteralList(TargetBefore(path)))
           => /\ RecordAt(target_tree, path) # NoRecord
              /\ Position(RecordAt(target_tree, path))
                     = Position(DirectiveRecord(SourceValue(path), "(=)"))
        /\ (HasOverwrite(SourceValue(path)) /\ IsDirectiveMapping(TargetBefore(path)))
           => /\ DirectiveRecord(TargetAfter(path), "(=)") # NoRecord
              /\ Position(DirectiveRecord(TargetAfter(path), "(=)"))
                     = Position(DirectiveRecord(SourceValue(path), "(=)"))
              /\ RecordAt(target_tree, path) = RecordAt(composed.before, path)

\* the overwrite directive of a second layer resolved on a literal list:
\* the target's record of the key is that of the directive, not that of the
\* source's key
C13_Witness ==
    /\ composed.op = "compose"
    /\ composed.n = 2
    /\ composed.err = "none"
    /\ HasOverwrite(SourceValue(Seq1("k")))
    /\ IsLiteralList(TargetBefore(Seq1("k")))
    /\ RecordAt(target_tree, Seq1("k")).file = LayerFile(2)
    /\ Position(RecordAt(target_tree, Seq1("k")))
           = Position(DirectiveRecord(SourceValue(Seq1("k")), "(=)"))
    /\ Position(RecordAt(target_tree, Seq1("k")))
           # Position(RecordAt(composed.source, Seq1("k")))

\* the provenance of a mapping mirrors it: one member record for every key,
\* and for a list as many element records as items, the same again in the
\* mappings and lists inside
RECURSIVE Mirrors(_), ListMirrors(_, _)
Mirrors(node) ==
    /\ ~node.prov.none
    /\ DOMAIN node.prov.members = KeysOf(node)
    /\ \A i \in 1..Len(node.entries) :
           Let(node.entries[i], LAMBDA e :
               CASE e.value.kind = "dict" -> Mirrors(e.value)
                 [] e.value.kind = "list" ->
                        ListMirrors(e.value.items, node.prov.members[e.key].elements)
                 [] OTHER -> TRUE)
ListMirrors(items, elements) ==
    /\ Len(elements) = Len(items)
    /\ \A i \in 1..Len(items) :
           CASE items[i].kind = "dict" -> Mirrors(items[i])
             [] items[i].kind = "list" ->
                    /\ ~IsBoundMethod(elements[i])
                    /\ ListMirrors(items[i].items, elements[i].elements)
             [] OTHER -> TRUE

\* every item of the list at the path with the position of its element
\* record
ItemsWithRecords(items, elements) ==
    [i \in 1..Len(items) |-> <<items[i], Position(elements[i])>>]
PairedAt(node, path) ==
    ItemsWithRecords(ValueAt(node, path).items, RecordAt(node, path).elements)
PairedDirective(v, directive) ==
    IF HasKey(v, directive)
    THEN ItemsWithRecords(DictGet(v, directive).items, v.prov.members[directive].elements)
    ELSE <<>>

\* C15: the provenance mirrors the tree.  A parsed tree has a record for
\* every mapping, a member record for every key and an element record for
\* every item of a list, and so has the target after every successful
\* composition.  The element records keep the order of the items: a list
\* that replaced the target's comes with its records, and the items that
\* directives put before and after a list come with theirs, before and
\* after the records of the list.
C15_ProvenanceMirrorsTree ==
    /\ (~Composing /\ ~target_tree.prov.none) => Mirrors(target_tree)
    /\ (Composing /\ composed.err = "none") =>
           /\ Mirrors(target_tree)
           /\ \A path \in KeyPaths :
                  /\ IsLiteralList(SourceValue(path))
                     => PairedAt(target_tree, path) = PairedAt(composed.source, path)
                  /\ (IsDirectiveMapping(SourceValue(path))
                      /\ IsLiteralList(TargetBefore(path)))
                     => PairedAt(target_tree, path)
                            = PairedDirective(SourceValue(path), "(<)")
                              \o (IF HasKey(SourceValue(path), "(=)")
                                  THEN PairedDirective(SourceValue(path), "(=)")
                                  ELSE PairedAt(composed.before, path))
                              \o PairedDirective(SourceValue(path), "(>)")

\* two items were put before and two after the two of a parsed list, each
\* with its element record
C15_Witness ==
    /\ Composing
    /\ composed.err = "none"
    /\ TargetBefore(Seq1("k")) = StrList(Seq2("x", "y"))
    /\ TargetAfter(Seq1("k")) = StrList(<<"a", "d", "x", "y", "b", "e">>)
    /\ Len(RecordAt(target_tree, Seq1("k")).elements) = 6
    /\ RecordAt(target_tree, Seq1("k")).elements[2].file = composed.source.prov.file
    /\ RecordAt(target_tree, Seq1("k")).elements[3].file = composed.before.prov.file
    /\ composed.source.prov.file # composed.before.prov.file

\* C14: no mapping, list or provenance record is held by both the target
\* and a source after a composition or a move.
C14_NothingShared == composed.shared = {}

(***************************************************************************)
(* Properties of composite_and_move()                                      *)
(***************************************************************************)
Moving == composed.op = "composite_and_move"
MemberValue(node, key) == DictGetDefault(node, key, PyNone)

\* C16: after a successful move the target holds exactly the members of
\* the original target composed onto the original source: every key of
\* either tree and no other, with the values of that composition.  The
\* scalars of the target won and the members that only the source held
\* were added.
C16_MoveLeavesMergedMembers ==
    (Moving /\ composed.err = "none") =>
        Let(composite(composed.source, composed.before).target, LAMBDA merged :
            /\ KeysOf(target_tree) = KeysOf(merged)
            /\ KeysOf(target_tree) = KeysOf(composed.before) \cup KeysOf(composed.source)
            /\ \A key \in KeysOf(merged) :
                   MemberValue(target_tree, key) = MemberValue(merged, key)
            /\ \A key \in KeysOf(composed.before) :
                   IsScalar(MemberValue(composed.before, key))
                   => MemberValue(target_tree, key) = MemberValue(composed.before, key)
            /\ \A key \in KeysOf(composed.source) \ KeysOf(composed.before) :
                   MemberValue(target_tree, key) = MemberValue(composed.source, key))

\* a target with "k" was moved onto a source with "m": it holds both
C16_Witness ==
    /\ Moving
    /\ composed.err = "none"
    /\ KeysOf(composed.before) = {"k"}
    /\ KeysOf(composed.source) = {"m"}
    /\ KeysOf(target_tree) = {"k", "m"}
    /\ MemberValue(target_tree, "k") = MemberValue(composed.before, "k")

\* C17: a move leaves the source with the keys and values it had.
C17_MoveLeavesSourceUnchanged ==
    Moving =>
        /\ KeysOf(composed.source_after) = KeysOf(composed.source)
        /\ \A key \in KeysOf(composed.source) :
               MemberValue(composed.source_after, key) = MemberValue(composed.source, key)

(***************************************************************************)
(* Properties of the helpers                                               *)
(***************************************************************************)
Called(op) == helper_call.op = op

\* a directive is the key of a mapping somewhere in the tree
RECURSIVE HasDirectiveKey(_)
HasDirectiveKey(v) ==
    IF v.kind = "dict"
    THEN \E i \in 1..Len(v.entries) :
             v.entries[i].key \in {"(=)", "(<)", "(>)"} \/ HasDirectiveKey(v.entries[i].value)
    ELSE IF v.kind = "list"
    THEN \E i \in 1..Len(v.items) : HasDirectiveKey(v.items[i])
    ELSE FALSE

\* C18: node_final_assertions() raises TRAILING_LIST_DIRECTIVE exactly when a
\* directive is still the key of a mapping somewhere in the tree - at any
\* depth, also in a mapping held by a list or by a list of a list - returns
\* normally on every other tree, and leaves the tree as it was.
C18_FinalAssertionsFindEveryDirective ==
    Called("node_final_assertions") =>
        /\ helper_call.err = "TRAILING_LIST_DIRECTIVE" <=> HasDirectiveKey(helper_call.before)
        /\ ~HasDirectiveKey(helper_call.before) => helper_call.err = "none"
        /\ helper_tree = helper_call.before

\* the call raised for a directive that only a mapping inside a list of a
\* list holds
C18_Witness ==
    /\ Called("node_final_assertions")
    /\ helper_call.err = "TRAILING_LIST_DIRECTIVE"
    /\ \A i \in 1..Len(helper_tree.entries) :
           /\ helper_tree.entries[i].key \notin Directives
           /\ HasDirectiveKey(helper_tree.entries[i].value) =>
                  /\ helper_tree.entries[i].value.kind = "list"
                  /\ \A j \in 1..Len(helper_tree.entries[i].value.items) :
                         helper_tree.entries[i].value.items[j].kind = "list"

\* the code points of the key names, and Python's order of str
CodePoints(name) ==
    CASE name = "" -> <<>>
      [] name = "(<)" -> <<40, 60, 41>>
      [] name = "(=)" -> <<40, 61, 41>>
      [] name = "(>)" -> <<40, 62, 41>>
      [] name = "a" -> <<97>>
      [] name = "b" -> <<98>>
      [] name = "c" -> <<99>>

RECURSIVE LexLess(_, _)
LexLess(s, t) ==
    IF t = <<>> THEN FALSE
    ELSE IF s = <<>> THEN TRUE
    ELSE IF Head(s) # Head(t) THEN Head(s) < Head(t)
    ELSE LexLess(Tail(s), Tail(t))

\* canonical is the canonical form of v: the same members and items, the
\* items in their order, the keys in lexicographic order, no provenance
RECURSIVE Canonical(_, _)
Canonical(v, canonical) ==
    IF v.kind = "dict"
    THEN /\ canonical.kind = "dict"
         /\ canonical.prov = NoProv
         /\ Len(canonical.entries) = Len(v.entries)
         /\ KeysOf(canonical) = KeysOf(v)
         /\ \A i \in 1..Len(canonical.entries) : \A j \in 1..Len(canonical.entries) :
                i < j => LexLess(CodePoints(canonical.entries[i].key),
                                 CodePoints(canonical.entries[j].key))
         /\ \A k \in KeysOf(v) : Canonical(DictGet(v, k), DictGet(canonical, k))
    ELSE IF v.kind = "list"
    THEN /\ canonical.kind = "list"
         /\ Len(canonical.items) = Len(v.items)
         /\ \A i \in 1..Len(v.items) : Canonical(v.items[i], canonical.items[i])
    ELSE canonical = v

\* v without the order of its keys and without its provenance
RECURSIVE Unordered(_)
Unordered(v) ==
    IF v.kind = "dict"
    THEN [kind |-> "dict", members |-> [k \in KeysOf(v) |-> Unordered(DictGet(v, k))]]
    ELSE IF v.kind = "list"
    THEN [kind |-> "list", items |-> [i \in 1..Len(v.items) |-> Unordered(v.items[i])]]
    ELSE v

InitialTrees == HelperDocuments \cup {load_data(LayerFile(0), d) : d \in HelperDocuments}
UnorderedOf == [t \in InitialTrees |-> Unordered(t)]
SanitizedOf == [t \in InitialTrees |-> node_sanitize(t)]

\* C19: node_sanitize() is an idempotent canonicalization: its result is
\* its own sanitized form, holds the keys of every mapping at every depth in
\* lexicographic order, the items of every list in their order and no
\* provenance; trees that differ only in the insertion order of keys or in
\* provenance have the same result.
C19_SanitizeIsCanonical ==
    Called("node_sanitize") =>
        /\ node_sanitize(helper_tree) = helper_tree
        /\ Canonical(helper_call.before, helper_tree)
        /\ \A other \in InitialTrees :
               Unordered(helper_call.before) = UnorderedOf[other]
                   => SanitizedOf[other] = helper_tree

\* a parsed tree whose keys were not in order, at the top and in a mapping
\* that a list holds, was sanitized, and a tree built with another key order
\* has the same members
C19_Witness ==
    /\ Called("node_sanitize")
    /\ helper_call.before.prov # NoProv
    /\ key_list_of(helper_call.before) # key_list_of(helper_tree)
    /\ \E i \in 1..Len(helper_tree.entries) :
           /\ Unordered(DictGet(helper_call.before, helper_tree.entries[i].key))
                  = Unordered(List(Seq1(List(Seq2(Unsorted, Str("s"))))))
           /\ helper_tree.entries[i].value
                  = List(Seq1(List(Seq2(Two("a", Str("t"), "b", Str("s")), Str("s")))))
    /\ \E other \in HelperTrees :
           /\ key_list_of(other) = key_list_of(helper_tree)
           /\ UnorderedOf[other] = Unordered(helper_call.before)

\* C20: node_validate() raises INVALID_DATA whenever the node holds a key
\* that valid_keys lacks, whatever the key's content, and returns normally
\* exactly when valid_keys holds every key of the node.
C20_ValidateRejectsEveryUnexpectedKey ==
    Called("node_validate") =>
        /\ (\E key \in KeysOf(helper_call.before) : key \notin helper_call.valid_keys)
               => helper_call.err = "INVALID_DATA"
        /\ helper_call.err = "none" <=> KeysOf(helper_call.before) \subseteq helper_call.valid_keys

\* ---- node_get() ----
Held == HasKey(helper_call.before, helper_call.key)
HeldValue == DictGet(helper_call.before, helper_call.key)
IsCollection(v) == v.kind \in {"list", "dict"}
Expects(expected_type, v) ==
    \/ expected_type \in {"dict", "Mapping"} /\ v.kind = "dict"
    \/ expected_type = "list" /\ v.kind = "list"
PlainCall == helper_call.default_value = Sentinel /\ ~helper_call.allow_none

\* C21: node_get() without a default raises INVALID_DATA when the key is
\* absent, when the value is a mapping or a list and another type is
\* expected, and when the value is a scalar and a mapping or a list is
\* expected; no call returns a mapping or a list for another value, or
\* another value for a mapping or a list.
C21_GetRefusesWrongKinds ==
    Called("node_get") =>
        /\ PlainCall =>
               /\ ~Held => helper_call.err = "INVALID_DATA"
               /\ (Held /\ IsCollection(HeldValue)
                        /\ ~Expects(helper_call.expected_type, HeldValue))
                      => helper_call.err = "INVALID_DATA"
               /\ (Held /\ ~IsCollection(HeldValue)
                        /\ helper_call.expected_type \in {"list", "dict", "Mapping"})
                      => helper_call.err = "INVALID_DATA"
        /\ (helper_call.err = "none" /\ Held /\ IsCollection(HeldValue))
               => helper_call.value = HeldValue
        /\ (helper_call.err = "none" /\ IsCollection(helper_call.value))
               => Held /\ helper_call.value = HeldValue

\* a string was asked for as a Mapping and refused
C21_Witness ==
    /\ Called("node_get")
    /\ PlainCall
    /\ Held
    /\ HeldValue.kind = "str"
    /\ helper_call.expected_type = "Mapping"
    /\ helper_call.err = "INVALID_DATA"

\* C22: node_get() with expected type bool gives True for the strings
\* "True" and "true", False for "False" and "false", and raises INVALID_DATA
\* for every other string; no other string becomes True.
C22_BooleanStrings ==
    (Called("node_get") /\ helper_call.expected_type = "bool" /\ Held
         /\ HeldValue.kind = "str") =>
        /\ HeldValue.val \in {"True", "true"}
               => helper_call.err = "none" /\ helper_call.value = Bool(TRUE)
        /\ HeldValue.val \in {"False", "false"}
               => helper_call.err = "none" /\ helper_call.value = Bool(FALSE)
        /\ HeldValue.val \notin {"True", "true", "False", "false"}
               => helper_call.err = "INVALID_DATA"

\* the string "yes" was asked for as a boolean and refused
C22_Witness ==
    /\ Called("node_get")
    /\ helper_call.expected_type = "bool"
    /\ Held
    /\ HeldValue = Str("yes")
    /\ helper_call.err = "INVALID_DATA"

\* C23: node_copy() of a loaded tree returns a tree equal to it, with a
\* provenance equal to its provenance at every depth, also for the lists
\* that lists hold.
C23_CopyEqualsSource ==
    (Called("node_copy") /\ ~helper_call.before.prov.none) =>
        /\ helper_call.err = "none"
        /\ helper_call.value = helper_call.before

\* ---- layers ----
\* the layers composed one after the other onto target, each as it was loaded
RECURSIVE composite_all(_, _)
composite_all(target, layers) ==
    IF layers = <<>> THEN [err |-> "none", target |-> target]
    ELSE Let(composite(target, Head(layers).source), LAMBDA r :
             IF r.err # "none" THEN [err |-> r.err, target |-> r.target]
             ELSE composite_all(r.target, Tail(layers)))

SomeCopied == \E i \in 1..Len(composed.layers) : composed.layers[i].copied

\* C24: layers that compose without conflict onto an empty tree compose to
\* the same tree when a layer is replaced by its node_copy().
C24_CopyComposesAlike ==
    (composed.op \in {"layer", "layer_copy"} /\ SomeCopied
         /\ composite_all(Dict(<<>>), composed.layers).err = "none") =>
        /\ composed.err = "none"
        /\ target_tree = composite_all(Dict(<<>>), composed.layers).target

\* every layer gave "k" a mapping of directives, none was copied, and the
\* base holds a literal list at "k"
DirectivesOntoList ==
    /\ composed.op = "resolve"
    /\ Len(composed.layers) > 1
    /\ \A i \in 1..Len(composed.layers) :
           /\ ~composed.layers[i].copied
           /\ IsDirectiveMapping(ValueAt(composed.layers[i].source, Seq1("k")))
    /\ IsLiteralList(ValueAt(composed.base, Seq1("k")))

\* C30: directive mappings composed one after the other onto an empty
\* tree, and the tree they leave composed onto a tree holding a literal
\* list, give the list that the same mappings give when they are composed
\* one after the other onto the tree holding the list.
C30_LayeringIsAssociative ==
    DirectivesOntoList =>
        /\ composed.err = "none"
        /\ composite_all(composed.base, composed.layers).err = "none"
        /\ ValueAt(target_tree, Seq1("k")).kind = "list"
        /\ ValueAt(target_tree, Seq1("k")).items
               = ValueAt(composite_all(composed.base, composed.layers).target, Seq1("k")).items

\* an overwrite followed by a prepend was resolved on a list of two items
C30_Witness ==
    /\ DirectivesOntoList
    /\ composed.err = "none"
    /\ HasKey(ValueAt(composed.layers[1].source, Seq1("k")), "(=)")
    /\ HasKey(ValueAt(composed.layers[Len(composed.layers)].source, Seq1("k")), "(<)")
    /\ Len(ValueAt(composed.base, Seq1("k")).items) > 1
    /\ Len(ValueAt(target_tree, Seq1("k")).items) > 1

(***************************************************************************)
(* Properties of the Source                                                *)
(***************************************************************************)
SourceCalled(op) == source_call.op = op
Fallback == SourceCalled("_fetch") \/ SourceCalled("_track")
RaisedBy(uri) == source_call.callback[uri].raises
EveryUriFails ==
    \A i \in 1..Len(source_call.uri_list) : RaisedBy(source_call.uri_list[i]) = "SourceError"

\* C25: the fallback calls the operation once per URI in the order of the
\* list, stops at the first call that does not raise SourceError and
\* returns what that call returned; it raises SourceError when every call
\* raises SourceError and when the list is empty.
C25_FallbackStopsAtFirstSuccess ==
    Fallback =>
        Let(source_call.iterated, LAMBDA it :
            /\ Len(it.called) <= Len(source_call.uri_list)
            /\ it.called = SubSeq(source_call.uri_list, 1, Len(it.called))
            /\ \A j \in 1..(Len(it.called) - 1) : RaisedBy(it.called[j]) = "SourceError"
            /\ EveryUriFails <=> source_call.err = "SourceError"
            /\ EveryUriFails => it.called = source_call.uri_list
            /\ ~EveryUriFails => RaisedBy(it.called[Len(it.called)]) # "SourceError"
            /\ source_call.err = "none" =>
                   /\ RaisedBy(it.called[Len(it.called)]) = "none"
                   /\ it.retval = source_call.callback[it.called[Len(it.called)]].retval)

\* a fetch failed for the first URI and succeeded for the second, and a
\* third would not have been tried
C25_Witness ==
    /\ SourceCalled("_fetch")
    /\ source_call.err = "none"
    /\ Len(source_call.iterated.called) > 1
    /\ RaisedBy(source_call.iterated.called[1]) = "SourceError"

\* C27: the SourceError raised when every URI failed holds in its detail the
\* errors of the attempts, one for each.
C27_FailureCollectsErrors ==
    (Fallback /\ source_call.err = "SourceError" /\ source_call.uri_list # <<>>) =>
        /\ source_call.iterated.detail # NoRef
        /\ Len(source_call.iterated.detail) = Len(source_call.iterated.called)

\* C26: _track() returns the ref that tracking resolved, or the current ref
\* when tracking resolved None; it reports a new revision exactly when what
\* it returns differs from the current ref, and leaves the source as it was.
C26_TrackReturnsResolvedOrCurrent ==
    SourceCalled("_track") =>
        /\ source_state = source_call.before
        /\ source_call.err = "none" =>
               /\ source_call.iterated.retval # NoRef
                      => source_call.retval = source_call.iterated.retval
               /\ source_call.iterated.retval = NoRef
                      => source_call.retval = source_call.before.ref
               /\ source_call.info <=> source_call.retval # source_call.before.ref
        /\ source_call.err # "none" => ~source_call.info

\* tracking resolved nothing for a source that has a ref
C26_Witness ==
    /\ SourceCalled("_track")
    /\ source_call.err = "none"
    /\ source_call.iterated.retval = NoRef
    /\ source_call.before.ref # NoRef
    /\ source_call.retval = source_call.before.ref
    /\ ~source_call.info

Wrote(file) == \E i \in 1..Len(source_call.log) : source_call.log[i] = "write " \o file
RefsStored == source_call.before.ref_storage = ProjectRefStorage_PROJECT_REFS

\* C28: _save_ref() sets the ref in memory first, whatever follows, and
\* returns whether the new ref differs from the previous one; it writes
\* project.refs when the toplevel project stores refs there, the element's
\* file when the source's project is the toplevel one with inline refs, and
\* no file for a junctioned project with inline refs; a failing write is a
\* SourceError raised with the ref in memory already changed.
C28_SaveRefSetsThenPersists ==
    SourceCalled("_save_ref") =>
        /\ Head(source_call.log) = "set_ref"
        /\ source_state.ref = source_call.new_ref
        /\ source_call.err = "none"
               => (source_call.retval <=> source_call.new_ref # source_call.before.ref)
        /\ Wrote("project.refs") <=> RefsStored
        /\ Wrote("element") <=> (~RefsStored /\ source_call.before.is_toplevel)
        /\ (~RefsStored /\ ~source_call.before.is_toplevel) =>
               /\ source_call.err = "none"
               /\ source_state.refs_file = source_call.before.refs_file
               /\ source_state.element_file = source_call.before.element_file
        /\ (source_call.err = "none" /\ Wrote("project.refs"))
               => source_state.refs_file = source_call.new_ref
        /\ (source_call.err = "none" /\ Wrote("element"))
               => source_state.element_file = source_call.new_ref
        /\ source_call.err = "SourceError" <=>
               (source_call.oserror /\ (Wrote("project.refs") \/ Wrote("element")))
        /\ source_call.err = "SourceError" =>
               /\ source_state.refs_file = source_call.before.refs_file
               /\ source_state.element_file = source_call.before.element_file

\* a junctioned source of a project with inline refs was given a new ref
C28_Witness ==
    /\ SourceCalled("_save_ref")
    /\ ~RefsStored
    /\ ~source_call.before.is_toplevel
    /\ source_call.new_ref # source_call.before.ref
    /\ source_call.retval
    /\ source_state.ref = source_call.new_ref

\* C29: the cached consistency starts at INCONSISTENT; once it is CACHED no
\* _update_state() asks the plugin and no call changes it; below CACHED every
\* _update_state() replaces it with the plugin's answer.
C29_CachedIsAbsorbing ==
    /\ [](SourceCalled("none") => source_state.consistency = Consistency_INCONSISTENT)
    /\ [](SourceCalled("_update_state") =>
              IF source_call.before.consistency = Consistency_CACHED
              THEN ~source_call.asked /\ source_state.consistency = Consistency_CACHED
              ELSE source_call.asked /\ source_state.consistency = source_call.answer)
    /\ [][source_state.consistency = Consistency_CACHED
              => source_state'.consistency = Consistency_CACHED]_vars

\* the state of a cached source was updated while the plugin would have
\* answered otherwise
C29_Witness ==
    /\ SourceCalled("_update_state")
    /\ source_call.before.consistency = Consistency_CACHED
    /\ source_call.answer # Consistency_CACHED
    /\ ~source_call.asked

====
